---- MODULE Spec2Model ----
(***************************************************************************)
(* A model of extract_data.py: the input check (symbol normalization, the  *)
(* limits on dates and times), the extraction loop over symbols and dates  *)
(* (query_sql with its retries, the narrowing of date_list), the outlier   *)
(* filter with its (k, y) grid search, the aggregation of simultaneous     *)
(* trades, the resampling onto a time grid with gap filling, the export.   *)
(*                                                                         *)
(* Prices are integers (cents); a tolerance y of 0.02 is 2.  Times are     *)
(* integers: tenths of a second counted from 09:30:00, a time of day that  *)
(* is a multiple of every resampling step.  Dates are day numbers, day 1   *)
(* being 2003-09-10.  A price that the program computes as a quotient (a   *)
(* median, an interpolated value) is a pair <<num, den>>.                  *)
(***************************************************************************)
EXTENDS Integers, Sequences, FiniteSets, TLC

(***************************************************************************)
(* Program constants.                                                      *)
(***************************************************************************)
max_attempts_three == 2 + 1
max_attempts == 2

\* delta = 0.1, as the quotient delta_num / delta_den
delta_num == 1
delta_den == 10

\* line 493: the resampling steps tried, in tenths of a second: '2S'
freq_list_code == <<20>>

\* lines 495-498: the steps of the alternative implementation, '500L', '1S',
\* '2S', '5S'
freq_list_alternative == <<5, 10, 20, 50>>

k_list == <<41, 61, 81, 101>>
y_list_descending == <<6, 4, 2>>
y_list == <<2, 4, 6>>

\* np.meshgrid(k_list, y_list) ravelled: k varies fastest within each y
ky_array ==
    [g \in 1..(Len(k_list) * Len(y_list)) |->
        [k |-> k_list[((g - 1) % Len(k_list)) + 1],
         y |-> y_list[((g - 1) \div Len(k_list)) + 1]]]

(***************************************************************************)
(* Helpers on sequences.                                                   *)
(***************************************************************************)
Min2(a, b) == IF a <= b THEN a ELSE b
Max2(a, b) == IF a >= b THEN a ELSE b
Abs(a) == IF a >= 0 THEN a ELSE 0 - a

\* python's s[a:b] for 0 <= a, b (0-based, end exclusive, clipped to the length)
Slice(s, a, b) == SubSeq(s, a + 1, Min2(b, Len(s)))

\* the sum of s[lo..hi], by halves
RECURSIVE SumRange(_, _, _)
SumRange(s, lo, hi) ==
    IF lo > hi THEN 0
    ELSE IF lo = hi THEN s[lo]
    ELSE SumRange(s, lo, (lo + hi) \div 2) + SumRange(s, ((lo + hi) \div 2) + 1, hi)

\* the sum of (s[j] - base)^2 over lo..hi, by halves
RECURSIVE SumSqRange(_, _, _, _)
SumSqRange(s, base, lo, hi) ==
    IF lo > hi THEN 0
    ELSE IF lo = hi THEN (s[lo] - base) * (s[lo] - base)
    ELSE SumSqRange(s, base, lo, (lo + hi) \div 2)
         + SumSqRange(s, base, ((lo + hi) \div 2) + 1, hi)

Range(s) == {s[j] : j \in 1..Len(s)}

\* np.sort: the values in ascending order; the r-th is the value v with
\* fewer than r values below it and at least r values not above it
np_sort(s) ==
    LET vals == Range(s)
        below == [v \in vals |-> Cardinality({j \in 1..Len(s) : s[j] < v})]
        upto  == [v \in vals |-> Cardinality({j \in 1..Len(s) : s[j] <= v})]
    IN  SubSeq([r \in 1..Len(s) |->
                   CHOOSE v \in vals : below[v] < r /\ r <= upto[v]], 1, Len(s))

\* ndarray.sort() of an array that is ascending everywhere but at position
\* idx (1-based): the other values keep their order and the value at idx
\* moves to its place among them
sort_moved(w, idx) ==
    LET v == w[idx]
        rest == SubSeq(w, 1, idx - 1) \o SubSeq(w, idx + 1, Len(w))
        p == Cardinality({j \in 1..Len(rest) : rest[j] < v})
    IN  SubSeq(rest, 1, p) \o <<v>> \o SubSeq(rest, p + 1, Len(rest))

\* np.searchsorted(window, v), side 'left': the 0-based index of the first
\* element that is not below v
searchsorted(window, v) == Cardinality({j \in 1..Len(window) : window[j] < v})

(***************************************************************************)
(* The outlier filter of one symbol-day for one grid point (k, y).         *)
(***************************************************************************)
perc_b(k) == (k * delta_num) \div delta_den
perc_t(k) == (k * (delta_den - delta_num) + delta_den) \div delta_den

center_beg(k) == (k - 1) \div 2
center_end(n, k) == n - center_beg(k)

\* A rolling statistic is NaN or the trimmed slice's count m, its first
\* value base and the sums s1 = sum(x - base), s2 = sum((x - base)^2):
\* mean = base + s1/m and std^2 = (m*s2 - s1^2)/m^2.
NaN == [nan |-> TRUE]

WindowStat(window, k) ==
    LET trimmed == Slice(window, perc_b(k), perc_t(k))
    IN  IF trimmed = <<>> THEN NaN
        ELSE [nan |-> FALSE, m |-> Len(trimmed), base |-> trimmed[1],
              s1 |-> SumRange(trimmed, 1, Len(trimmed)) - Len(trimmed) * trimmed[1],
              s2 |-> SumSqRange(trimmed, trimmed[1], 1, Len(trimmed))]

\* the smallest price of the window is overwritten by the incoming price
WindowAdvance_smallest(window, price_sym_day, i, k) ==
    sort_moved([window EXCEPT ![1] = price_sym_day[i + center_beg(k) + 1 + 1]], 1)

\* lines 421-423: the price sliding out is overwritten at its sorted position
\* by the incoming price, and the window is sorted again (i is 0-based)
WindowAdvance(window, price_sym_day, i, k) ==
    LET idx_drop == searchsorted(window, price_sym_day[i - center_beg(k) + 1])
    IN  sort_moved([window EXCEPT ![idx_drop + 1] =
                       price_sym_day[i + center_beg(k) + 1 + 1]], idx_drop + 1)

\* lines 416-423: one pass of the loop body at position i (0-based) on the
\* loop's state lp = [window, rolling]
RollingStep(price_sym_day, k, lp, i) ==
    [rolling |-> [lp.rolling EXCEPT ![i + 1] = WindowStat(lp.window, k)],
     window  |-> IF i < center_end(Len(price_sym_day), k) - 1
                 THEN WindowAdvance(lp.window, price_sym_day, i, k)
                 ELSE lp.window]

\* the passes lo..hi of the loop in order; the range is split in halves and
\* the first half is evaluated (the test on it) before the second starts,
\* which keeps the evaluation shallow
RECURSIVE RollingLoop(_, _, _, _, _)
RollingLoop(price_sym_day, k, lp, lo, hi) ==
    IF lo > hi THEN lp
    ELSE IF lo = hi THEN RollingStep(price_sym_day, k, lp, lo)
    ELSE LET first == RollingLoop(price_sym_day, k, lp, lo, (lo + hi) \div 2)
         IN  IF first.rolling = <<>> THEN first
             ELSE RollingLoop(price_sym_day, k, first, ((lo + hi) \div 2) + 1, hi)

\* lines 410-412, then the loop over i in range(center_beg, center_end)
Rolling(price_sym_day, k) ==
    RollingLoop(price_sym_day, k,
                [window  |-> np_sort(Slice(price_sym_day, 0, k)),
                 rolling |-> SubSeq([j \in 1..Len(price_sym_day) |-> NaN],
                                    1, Len(price_sym_day))],
                center_beg(k), center_end(Len(price_sym_day), k) - 1).rolling

\* lines 428-431 raise IndexError (iloc[center_beg] out of bounds) when the
\* day has at most center_beg trades
DayRaises(n, k) == center_beg(k) >= n

\* no copy at the edges
EdgeCopy_none(rolling, k) == rolling

\* lines 428-431: positions before center_beg take the statistic at center_beg,
\* then positions from center_end on take the one at center_end - 1
EdgeCopy(rolling, k) ==
    LET n == Len(rolling)
        cb == center_beg(k)
        ce == center_end(n, k)
        head == [j \in 1..n |-> IF j <= cb THEN rolling[cb + 1] ELSE rolling[j]]
    IN  [j \in 1..n |-> IF j >= ce + 1 THEN head[ce] ELSE head[j]]

\* d*d > v and d*d < v for 0 <= d and 0 <= v < 2^31, without the square of
\* a d whose square exceeds every such v
SquareAbove(d, v) == d > 46340 \/ d * d > v
SquareBelow(d, v) == d <= 46340 /\ d * d < v

\* |price - mean| > y
IsOutlier_no_spread(price, st, y) ==
    /\ ~st.nan
    /\ Abs(st.m * (price - st.base) - st.s1) - st.m * y > 0

\* left_con > right_con: |price - mean| > 3*std + y, false when the statistic
\* is NaN.  With D = m*|price - mean|, Y = m*y and V = m*s2 - s1^2 this is
\* D - Y > 3*sqrt(V).
IsOutlier(price, st, y) ==
    /\ ~st.nan
    /\ LET d == Abs(st.m * (price - st.base) - st.s1) - st.m * y
       IN  d > 0 /\ SquareAbove(d, 9 * (st.m * st.s2 - st.s1 * st.s1))

\* left_con < right_con
IsInlier(price, st, y) ==
    /\ ~st.nan
    /\ LET d == Abs(st.m * (price - st.base) - st.s1) - st.m * y
       IN  d < 0 \/ SquareBelow(d, 9 * (st.m * st.s2 - st.s1 * st.s1))

\* lines 405-437 for one day without the IndexError: the outlier flags and
\* the inlier mask of the day
DayFilter(price_sym_day, k, y) ==
    LET st == EdgeCopy(Rolling(price_sym_day, k), k)
    IN  [out  |-> [j \in 1..Len(price_sym_day) |-> IsOutlier(price_sym_day[j], st[j], y)],
         keep |-> [j \in 1..Len(price_sym_day) |-> IsInlier(price_sym_day[j], st[j], y)]]

(***************************************************************************)
(* The trade source.  A trade is [sym_root, date, time_m, price, size]; a  *)
(* time is a number of tenths of a second, a date a day number.   *)
(* The tables hold, for each symbol and date, a day of trades in time      *)
(* order: several trades share a timestamp, the price alternates around a  *)
(* level and leaves it at two places (a far spike and a near one).         *)
(***************************************************************************)
SymbolPool == <<"AAPL", "AMZN", "GOOG", "TSLA">>

SymbolNo(symbol) == CHOOSE i \in 1..Len(SymbolPool) : SymbolPool[i] = symbol

TableLen(symbol, date) ==
    (IF SymbolNo(symbol) % 2 = 1 THEN 120 ELSE 64) + SymbolNo(symbol) + date

TablePrice(symbol, date, j) ==
    LET level == 100 * (SymbolNo(symbol) + 1)
    IN  IF j = 7 * date + SymbolNo(symbol) THEN level + 50
        ELSE IF j = 30 + date THEN level + 5
        ELSE level + (j % 2)

TableRows(symbol, date) ==
    SubSeq([j \in 1..TableLen(symbol, date) |->
               [sym_root |-> symbol, date |-> date,
                time_m   |-> 5 * (2 + date + (j \div 8)),
                price    |-> TablePrice(symbol, date, j),
                size     |-> 1 + (j % 3)]],
           1, TableLen(symbol, date))

\* the WHERE clause of the query (lines 193-199) on the times
SelectRows(symbol, date, start_time_, end_time_) ==
    SelectSeq(TableRows(symbol, date),
              LAMBDA t : t.time_m >= start_time_ /\ t.time_m <= end_time_)

(***************************************************************************)
(* Bounds of the model.                                                    *)
(***************************************************************************)
MaxSymbols == 2
MaxDates == 2
\* the most (symbol, date) pairs of a run
MaxQueries == 4

NoValue == 0 - 1

(***************************************************************************)
(* The state of a run.                                                     *)
(***************************************************************************)
VARIABLES
    pc,                     \* where the run is: "query", "query_sql", ...
    error,                  \* the exception that ended the run, "" if none
    symbol_list, date_list,
    start_date, end_date,   \* args.start_date, args.end_date, as day numbers
    start_time, end_time,   \* args.start_time, args.end_time
    suffix_query,           \* the suffix predicate of the symbols that have one
    message,                \* the last *** ERROR line printed, "" if none
    exit_status,            \* the exit status of the run, NoValue while it runs
    count_1,                \* 0-based index of the symbol being queried
    date_iter,              \* the list the inner loop iterates (date_list at its start)
    date_pos,               \* 1-based position of the inner loop in date_iter
    attempt,                \* loop variable of query_sql
    raw_sql_log,            \* outcomes of db.raw_sql in the latest query_sql call
    queried_trades, success_query_sql,
    remove_dates, warning_queried_trades, warning_query_sql, warning_ctm_date,
    n_obs_table, count_2, min_n_obs, max_n_obs,
    output,
    pos,                    \* 0-based index of the symbol in the later stages
    count,                  \* grid points of the symbol evaluated so far
    outlier_frame, not_outlier_sym_f, not_outlier_series, output_filtered,
    output_aggregate,
    freq_list,              \* the resampling steps tried, in tenths of a second
    freq_count,             \* 0-based index in freq_list of the step being tried
    nan_frame, output_resampled, output_resampled_f,
    files,                  \* the data.csv files written, in order
    price_sym_day, k, y,    \* one day's pass of the filter at one grid point
    i,                      \* the position range(center_beg, center_end) yields next
    window,
    rolling,                \* mean_rolling and std_rolling, as statistics
    outlier_sym,            \* left_con > right_con
    not_outlier_sym         \* left_con < right_con

input_vars == <<start_date, end_date, start_time, end_time, suffix_query>>

extract_vars ==
    <<symbol_list, date_list, input_vars, message, exit_status, count_1, date_iter, date_pos,
      attempt, raw_sql_log, queried_trades, success_query_sql, remove_dates,
      warning_queried_trades, warning_query_sql, warning_ctm_date,
      n_obs_table, count_2, min_n_obs, max_n_obs, output>>

outlier_vars ==
    <<pos, count, outlier_frame, not_outlier_sym_f, not_outlier_series,
      output_filtered>>

resample_vars ==
    <<output_aggregate, freq_list, freq_count, nan_frame, output_resampled,
      output_resampled_f, files>>

day_vars ==
    <<price_sym_day, k, y, i, window, rolling, outlier_sym, not_outlier_sym>>

vars == <<pc, error, extract_vars, outlier_vars, resample_vars, day_vars>>

\* lines 276-281: the symbol's row of n_obs_table before its first query
NewRow(symbol) ==
    [symbol |-> symbol, min_n_obs |-> NoValue, min_n_obs_day |-> NoValue,
     max_n_obs |-> NoValue, max_n_obs_day |-> NoValue]

(***************************************************************************)
(* Stage 1: the command line and the input check (lines 66-177).  A date   *)
(* is a day number, day 1 being 2003-09-10; a time of day is a number of   *)
(* tenths of a second after 09:30:00.                                      *)
(***************************************************************************)
\* lines 66-69: '2003-09-10', '2020-03-31', '09:30:00', '16:00:00'
min_start_date == 1
max_end_date == 6048
min_start_time == 0
max_end_time == 234000

\* lines 90-96: the debug settings: 2019-03-28, 2019-04-02, 09:38:00, 09:48:00
debug_symbol_list == <<"AAPL", "AMZN", "GOOG", "TSLA">>
debug_start_date == 5679
debug_end_date == 5684
debug_start_time == 4800
debug_end_time == 10800

\* lines 111-113
unwanted_symbols == <<"GOOG", "LBTYA", "FOX">>
wanted_symbols == <<"GOOG", "LBTY", "FOXA">>
wanted_symbols_suffix ==
    [sy \in {"GOOG", "LBTY", "FOXA"} |->
        IF sy = "GOOG" THEN <<"L", "='L'">>
        ELSE IF sy = "LBTY" THEN <<"K", "='K'">>
        ELSE <<"", "is null">>]

\* list.index(v): the first position of v
ListIndex(list, v) ==
    CHOOSE j \in 1..Len(list) : list[j] = v /\ \A j2 \in 1..(j - 1) : list[j2] # v

\* lines 117-126: the loop over unwanted_symbols from position p on; the
\* first occurrence of an unwanted symbol is replaced, the replacement's
\* predicate is set
RECURSIVE ReplaceUnwanted(_, _, _)
ReplaceUnwanted(p, list, sq) ==
    IF p > Len(unwanted_symbols) THEN [symbol_list |-> list, suffix_query |-> sq]
    ELSE IF unwanted_symbols[p] \in Range(list)
    THEN LET wanted_symbol == wanted_symbols[p]
         IN  ReplaceUnwanted(p + 1,
                 [list EXCEPT ![ListIndex(list, unwanted_symbols[p])] = wanted_symbol],
                 [sy \in DOMAIN sq \cup {wanted_symbol} |->
                     IF sy = wanted_symbol THEN wanted_symbols_suffix[wanted_symbol][2]
                     ELSE sq[sy]])
    ELSE ReplaceUnwanted(p + 1, list, sq)

\* lines 109-126: symbol_list and suffix_query after the normalization
Normalized(list) ==
    ReplaceUnwanted(1, list,
        [sy \in Range(list) \ Range(unwanted_symbols) |-> "is null"])

\* lines 151-154: the sessions of the exchange from start to end, both
\* included.  The weekends are left out (day 4 is a Saturday); the market
\* holidays are not told apart from the other weekdays.
IsSession(d) == d % 7 \notin {4, 5}

Calendar(start, end) ==
    SelectSeq([d \in 1..(end - start + 1) |-> start + d - 1], IsSession)

\* exit() after an error line
ExitWith(text) ==
    /\ pc' = "exited"
    /\ message' = text
    /\ exit_status' = 0

NormalizeSymbols ==
    /\ pc = "symbols"
    /\ symbol_list' = Normalized(symbol_list).symbol_list
    /\ suffix_query' = Normalized(symbol_list).suffix_query
    /\ pc' = "dates"
    /\ UNCHANGED <<error, date_list, start_date, end_date, start_time, end_time,
                   message, exit_status, count_1, date_iter, date_pos, attempt,
                   raw_sql_log, queried_trades, success_query_sql, remove_dates,
                   warning_queried_trades, warning_query_sql, warning_ctm_date,
                   n_obs_table, count_2, min_n_obs, max_n_obs, output,
                   outlier_vars, resample_vars, day_vars>>

\* lines 131-154
CheckDates ==
    /\ pc = "dates"
    /\ IF start_date > end_date
       THEN /\ ExitWith("Invalid start and end dates: chose a start date before the end date.")
            /\ UNCHANGED date_list
       ELSE IF start_date < min_start_date /\ end_date < max_end_date
       THEN /\ ExitWith("Invalid start date: choose a date after 2003-09-10.")
            /\ UNCHANGED date_list
       ELSE IF start_date > min_start_date /\ end_date > max_end_date
       THEN /\ ExitWith("Invalid end date: choose a date before 2020-03-31.")
            /\ UNCHANGED date_list
       ELSE IF start_date < min_start_date /\ end_date > max_end_date
       THEN /\ ExitWith("Invalid start and end dates: choose dates between 2003-09-10 and 2020-03-31.")
            /\ UNCHANGED date_list
       ELSE /\ date_list' = Calendar(start_date, end_date)
            /\ pc' = "times"
            /\ UNCHANGED <<message, exit_status>>
    /\ UNCHANGED <<error, symbol_list, input_vars, count_1, date_iter, date_pos,
                   attempt, raw_sql_log, queried_trades, success_query_sql,
                   remove_dates, warning_queried_trades, warning_query_sql,
                   warning_ctm_date, n_obs_table, count_2, min_n_obs, max_n_obs,
                   output, outlier_vars, resample_vars, day_vars>>

\* lines 159-177, then lines 264-281 up to the first query
CheckTimes ==
    /\ pc = "times"
    /\ IF start_time > end_time
       THEN /\ ExitWith("Invalid start and end times: chose a start time before the end time.")
            /\ UNCHANGED <<date_iter, n_obs_table>>
       ELSE IF start_time < min_start_time /\ end_time < max_end_time
       THEN /\ ExitWith("Invalid start time: choose a time after 09:30:00.")
            /\ UNCHANGED <<date_iter, n_obs_table>>
       ELSE IF start_time > min_start_time /\ end_time > max_end_time
       THEN /\ ExitWith("Invalid end time: choose a time before 16:00:00.")
            /\ UNCHANGED <<date_iter, n_obs_table>>
       ELSE IF start_time < min_start_time /\ end_time > max_end_time
       THEN /\ ExitWith("Invalid start and end times: choose times between 09:30:00 and 16:00:00.")
            /\ UNCHANGED <<date_iter, n_obs_table>>
       ELSE /\ pc' = "query"
            /\ date_iter' = date_list
            /\ n_obs_table' = <<NewRow(symbol_list[1])>>
            /\ UNCHANGED <<message, exit_status>>
    /\ UNCHANGED <<error, symbol_list, date_list, input_vars, count_1, date_pos,
                   attempt, raw_sql_log, queried_trades, success_query_sql,
                   remove_dates, warning_queried_trades, warning_query_sql,
                   warning_ctm_date, count_2, min_n_obs, max_n_obs, output,
                   outlier_vars, resample_vars, day_vars>>

Init ==
    /\ pc = "query"
    /\ error = ""
    /\ \E ns \in 1..MaxSymbols, nd \in 0..MaxDates :
          /\ ns * nd <= MaxQueries
          /\ symbol_list = SubSeq(SymbolPool, 1, ns)
          /\ date_list = [d \in 1..nd |-> d]
    /\ start_time = 0
    /\ end_time = 80
    /\ start_date = (IF date_list = <<>> THEN 4 ELSE 1)
    /\ end_date = (IF date_list = <<>> THEN 4 ELSE Len(date_list))
    /\ suffix_query = [sy \in Range(symbol_list) |-> "is null"]
    /\ message = ""
    /\ exit_status = NoValue
    /\ count_1 = 0
    /\ date_iter = date_list
    /\ date_pos = 1
    /\ attempt = 0
    /\ raw_sql_log = <<>>
    /\ queried_trades = <<>>
    /\ success_query_sql = FALSE
    /\ remove_dates = <<>>
    /\ warning_queried_trades = <<>>
    /\ warning_query_sql = <<>>
    /\ warning_ctm_date = <<>>
    /\ n_obs_table = <<NewRow(symbol_list[1])>>
    /\ count_2 = 0
    /\ min_n_obs = NoValue
    /\ max_n_obs = NoValue
    /\ output = <<>>
    /\ pos = 0
    /\ count = 0
    /\ outlier_frame = <<>>
    /\ not_outlier_sym_f = <<>>
    /\ not_outlier_series = <<>>
    /\ output_filtered = <<>>
    /\ output_aggregate = <<>>
    /\ freq_list = freq_list_code
    /\ freq_count = 0
    /\ nan_frame = <<>>
    /\ output_resampled = <<>>
    /\ output_resampled_f = <<>>
    /\ files = <<>>
    /\ price_sym_day = <<>>
    /\ k = 0
    /\ y = 0
    /\ i = 0
    /\ window = <<>>
    /\ rolling = <<>>
    /\ outlier_sym = <<>>
    /\ not_outlier_sym = <<>>

symbol == symbol_list[count_1 + 1]
date == date_iter[date_pos]

\* query_sql is entered with attempt 0 when the run is at "query"
cur_attempt == IF pc = "query" THEN 0 ELSE attempt
cur_log == IF pc = "query" THEN <<>> ELSE raw_sql_log

\* obs <= min_n_obs
ObsBelow_or_equal(obs, min_n_obs_) == obs <= min_n_obs_

\* line 248: obs < min_n_obs
ObsBelow(obs, min_n_obs_) == obs < min_n_obs_

\* n_obs (lines 233-259): the new values of count_2, min_n_obs, max_n_obs
\* and n_obs_table
n_obs(queried_trades_, date_) ==
    LET obs == Len(queried_trades_)
        row == n_obs_table[count_1 + 1]
    IN  IF count_2 + 1 = 1
        THEN [count_2 |-> count_2 + 1, min_n_obs |-> obs, max_n_obs |-> obs,
              n_obs_table |-> [n_obs_table EXCEPT ![count_1 + 1] =
                  [row EXCEPT !.min_n_obs = obs, !.min_n_obs_day = date_,
                              !.max_n_obs = obs, !.max_n_obs_day = date_]]]
        ELSE IF ObsBelow(obs, min_n_obs)
        THEN [count_2 |-> count_2 + 1, min_n_obs |-> obs, max_n_obs |-> max_n_obs,
              n_obs_table |-> [n_obs_table EXCEPT ![count_1 + 1] =
                  [row EXCEPT !.min_n_obs = obs, !.min_n_obs_day = date_]]]
        ELSE IF obs > max_n_obs
        THEN [count_2 |-> count_2 + 1, min_n_obs |-> min_n_obs, max_n_obs |-> obs,
              n_obs_table |-> [n_obs_table EXCEPT ![count_1 + 1] =
                  [row EXCEPT !.max_n_obs = obs, !.max_n_obs_day = date_]]]
        ELSE [count_2 |-> count_2 + 1, min_n_obs |-> min_n_obs,
              max_n_obs |-> max_n_obs, n_obs_table |-> n_obs_table]

\* line 322: date_list without the dates of remove_dates
Narrowed(dates, remove_dates_) ==
    SelectSeq(dates, LAMBDA d : d \notin Range(remove_dates_))

\* line 324: len(date_list) == 0
NoDateLeft_never(dates) == FALSE
NoDateLeft(dates) == Len(dates) = 0

\* line 329: the trades of output whose date is in date_list
KeepDates_all(output_, dates) == output_
KeepDates(output_, dates) ==
    SelectSeq(output_, LAMBDA t : t.date \in Range(dates))

\* lines 385-386: outlier_frame with its symbol column filled
NewOutlierFrame ==
    [p \in 1..Len(symbol_list) |->
        [symbol |-> symbol_list[p], out_num |-> NoValue, k |-> NoValue, y |-> NoValue]]

\* What follows the handling of one date (lines 283, 322-329), given the
\* values ob = [count_2, min_n_obs, max_n_obs, n_obs_table], remove_dates
\* and output have after it: the next date of the symbol; after the symbol's
\* last date the narrowing of date_list, then exit() on an empty list, or
\* the next symbol (lines 276-281), or after the last symbol line 329, which
\* raises KeyError when output never received a frame.
EndOfDate(remove_dates_, output_, ob) ==
    IF date_pos < Len(date_iter)
    THEN /\ pc' = "query"
         /\ date_pos' = date_pos + 1
         /\ output' = output_
         /\ n_obs_table' = ob.n_obs_table
         /\ count_2' = ob.count_2
         /\ min_n_obs' = ob.min_n_obs
         /\ max_n_obs' = ob.max_n_obs
         /\ UNCHANGED <<error, message, exit_status, count_1, date_list, date_iter,
                        outlier_vars, resample_vars, day_vars>>
    ELSE LET narrowed == Narrowed(date_list, remove_dates_)
         IN  /\ date_list' = narrowed
             /\ IF NoDateLeft(narrowed)
                THEN /\ pc' = "exited"
                     /\ output' = output_
                     /\ n_obs_table' = ob.n_obs_table
                     /\ count_2' = ob.count_2
                     /\ min_n_obs' = ob.min_n_obs
                     /\ max_n_obs' = ob.max_n_obs
                     /\ message' = "Could not find any table in the table list or at least one symbol did not trade for each date."
                     /\ exit_status' = 0
                     /\ UNCHANGED <<error, count_1, date_iter, date_pos, outlier_vars,
                                    resample_vars, day_vars>>
                ELSE IF count_1 + 1 < Len(symbol_list)
                THEN /\ pc' = "query"
                     /\ count_1' = count_1 + 1
                     /\ date_iter' = narrowed
                     /\ date_pos' = 1
                     /\ output' = output_
                     /\ n_obs_table' =
                            Append(ob.n_obs_table, NewRow(symbol_list[count_1 + 2]))
                     /\ count_2' = 0
                     /\ min_n_obs' = NoValue
                     /\ max_n_obs' = NoValue
                     /\ UNCHANGED <<error, message, exit_status, outlier_vars,
                                    resample_vars, day_vars>>
                ELSE /\ IF output_ = <<>>
                        THEN /\ pc' = "raised"
                             /\ error' = "KeyError"
                             /\ output' = output_
                             /\ UNCHANGED <<outlier_vars, resample_vars, day_vars>>
                        ELSE /\ pc' = "outlier"
                             /\ error' = error
                             /\ output' = KeepDates(output_, narrowed)
                             /\ outlier_frame' = NewOutlierFrame
                             /\ UNCHANGED <<pos, count, not_outlier_sym_f,
                                            not_outlier_series, output_filtered,
                                            resample_vars, day_vars>>
                     /\ n_obs_table' = ob.n_obs_table
                     /\ count_2' = ob.count_2
                     /\ min_n_obs' = ob.min_n_obs
                     /\ max_n_obs' = ob.max_n_obs
                     /\ UNCHANGED <<message, exit_status, count_1, date_iter, date_pos>>

n_obs_unchanged ==
    [count_2 |-> count_2, min_n_obs |-> min_n_obs, max_n_obs |-> max_n_obs,
     n_obs_table |-> n_obs_table]

\* lines 283, 322-327 with no date to iterate: the symbol's loop body does
\* nothing, date_list stays empty and the run exits
NoDates ==
    /\ pc = "query"
    /\ date_iter = <<>>
    /\ EndOfDate(remove_dates, output, n_obs_unchanged)
    /\ UNCHANGED <<symbol_list, input_vars, attempt, raw_sql_log,
                   queried_trades, success_query_sql, remove_dates,
                   warning_queried_trades, warning_query_sql, warning_ctm_date>>

\* lines 288-290, 315-320: the table ctm_<date> is not listed
TableMissing ==
    /\ pc = "query"
    /\ date_iter # <<>>
    /\ remove_dates' = Append(remove_dates, date)
    /\ warning_ctm_date' = Append(warning_ctm_date, date)
    /\ EndOfDate(remove_dates', output, n_obs_unchanged)
    /\ UNCHANGED <<symbol_list, input_vars, attempt, raw_sql_log,
                   queried_trades, success_query_sql, warning_queried_trades,
                   warning_query_sql>>

\* lines 208-222: db.raw_sql raises.  Before the last attempt query_sql tries
\* again; at the last attempt it returns (None, False) and lines 310-313
\* record the warning.
RawSqlRaises ==
    /\ pc \in {"query", "query_sql"}
    /\ date_iter # <<>>
    /\ cur_attempt < max_attempts
    /\ raw_sql_log' = Append(cur_log, "raised")
    /\ IF cur_attempt < max_attempts - 1
       THEN /\ pc' = "query_sql"
            /\ attempt' = cur_attempt + 1
            /\ UNCHANGED <<error, symbol_list, date_list, input_vars, message,
                           exit_status,
                           count_1, date_iter, date_pos, queried_trades,
                           success_query_sql, remove_dates, warning_queried_trades,
                           warning_query_sql, warning_ctm_date, n_obs_table,
                           count_2, min_n_obs, max_n_obs, output, outlier_vars,
                           resample_vars, day_vars>>
       ELSE /\ attempt' = cur_attempt
            /\ queried_trades' = <<>>
            /\ success_query_sql' = FALSE
            /\ warning_query_sql' = Append(warning_query_sql, <<symbol, date>>)
            /\ EndOfDate(remove_dates, output, n_obs_unchanged)
            /\ UNCHANGED <<symbol_list, input_vars, remove_dates,
                           warning_queried_trades, warning_ctm_date>>

\* lines 212, 224-226, 294-308: db.raw_sql returns the selected rows, or no
\* row when the symbol did not trade; query_sql returns (rows, True); rows
\* are appended to output and counted, no row removes the date
Returned(rows) ==
    /\ raw_sql_log' = Append(cur_log, "returned")
    /\ attempt' = cur_attempt
    /\ queried_trades' = rows
    /\ success_query_sql' = TRUE
    /\ IF Len(rows) > 0
       THEN /\ EndOfDate(remove_dates, output \o rows, n_obs(rows, date))
            /\ UNCHANGED <<remove_dates, warning_queried_trades>>
       ELSE /\ remove_dates' = Append(remove_dates, date)
            /\ warning_queried_trades' =
                   Append(warning_queried_trades, <<symbol, date>>)
            /\ EndOfDate(remove_dates', output, n_obs_unchanged)
    /\ UNCHANGED <<symbol_list, input_vars, warning_query_sql,
                   warning_ctm_date>>

RawSqlReturns ==
    /\ pc \in {"query", "query_sql"}
    /\ date_iter # <<>>
    /\ cur_attempt < max_attempts
    /\ \E rows \in {<<>>, SelectRows(symbol, date, start_time, end_time)} :
          Returned(rows)

(***************************************************************************)
(* Stage 3: the outlier grid search (lines 390-455).                       *)
(***************************************************************************)
\* the concatenation of the sequences ss[lo..hi], by halves
RECURSIVE Concat(_, _, _)
Concat(ss, lo, hi) ==
    IF lo > hi THEN <<>>
    ELSE IF lo = hi THEN ss[lo]
    ELSE Concat(ss, lo, (lo + hi) \div 2) \o Concat(ss, ((lo + hi) \div 2) + 1, hi)

CountTrue(f) == Cardinality({j \in 1..Len(f) : f[j]})

\* line 405: the prices of the symbol's trades of the date, in output's order
PriceSymDay(output_, symbol_, date_) ==
    LET rows == SelectSeq(output_, LAMBDA t : t.sym_root = symbol_ /\ t.date = date_)
    IN  SubSeq([j \in 1..Len(rows) |-> rows[j].price], 1, Len(rows))

\* lines 396-437 for the symbol at pos and the grid point g: the days'
\* prices, whether a day raises IndexError, the symbol's outlier count and
\* its inlier mask over its days in date_list's order
GridPointDays(g) ==
    [d \in 1..Len(date_list) |->
        PriceSymDay(output, symbol_list[pos + 1], date_list[d])]

GridPointRaises(g) ==
    \E d \in 1..Len(date_list) : DayRaises(Len(GridPointDays(g)[d]), ky_array[g].k)

GridPointResult(g) ==
    LET days == GridPointDays(g)
        res == SubSeq([d \in 1..Len(date_list) |->
                          DayFilter(days[d], ky_array[g].k, ky_array[g].y)],
                      1, Len(date_list))
    IN  [outlier_num_sym |->
             SumRange([d \in 1..Len(date_list) |-> CountTrue(res[d].out)],
                      1, Len(date_list)),
         not_outlier_sym |->
             Concat([d \in 1..Len(date_list) |-> res[d].keep], 1, Len(date_list))]

\* line 455: the rows of output at the positions where the mask is true
MaskRows(output_, mask) ==
    LET n == Min2(Len(output_), Len(mask))
        kept == SelectSeq([j \in 1..n |-> [row |-> output_[j], keep |-> mask[j]]],
                          LAMBDA e : e.keep)
    IN  SubSeq([j \in 1..Len(kept) |-> kept[j].row], 1, Len(kept))

\* outlier_num_sym >= out_num
MoreOutliers_or_equal(outlier_num_sym, out_num) == outlier_num_sym >= out_num

\* line 446: outlier_num_sym > outlier_frame.loc[pos, 'out_num']
MoreOutliers(outlier_num_sym, out_num) == outlier_num_sym > out_num

\* One pass of the loop over ky_array for the symbol at pos (lines 394-451):
\* all its days are filtered with (k, y); the grid point becomes the symbol's
\* best when it is the first or counts more outliers than the best so far.
\* After the symbol's last grid point its mask is appended (line 453), and
\* after the last symbol output is masked (line 455).  A day of at most
\* center_beg trades ends the run with IndexError.
GridPoint ==
    /\ pc = "outlier"
    /\ LET g == count + 1
       IN  IF GridPointRaises(g)
           THEN /\ pc' = "raised"
                /\ error' = "IndexError"
                /\ UNCHANGED outlier_vars
           ELSE LET r == GridPointResult(g)
                    better == g = 1 \/ MoreOutliers(r.outlier_num_sym,
                                                    outlier_frame[pos + 1].out_num)
                    frame == IF better
                             THEN [outlier_frame EXCEPT ![pos + 1] =
                                      [symbol |-> symbol_list[pos + 1],
                                       out_num |-> r.outlier_num_sym,
                                       k |-> ky_array[g].k, y |-> ky_array[g].y]]
                             ELSE outlier_frame
                    best == IF better THEN r.not_outlier_sym ELSE not_outlier_sym_f
                IN  /\ outlier_frame' = frame
                    /\ not_outlier_sym_f' = best
                    /\ error' = error
                    /\ IF g < Len(ky_array)
                       THEN /\ count' = g
                            /\ pc' = "outlier"
                            /\ UNCHANGED <<pos, not_outlier_series, output_filtered>>
                       ELSE /\ not_outlier_series' = not_outlier_series \o best
                            /\ count' = 0
                            /\ IF pos + 1 < Len(symbol_list)
                               THEN /\ pos' = pos + 1
                                    /\ pc' = "outlier"
                                    /\ UNCHANGED output_filtered
                               ELSE /\ pos' = 0
                                    /\ pc' = "aggregate"
                                    /\ output_filtered' =
                                           MaskRows(output, not_outlier_series')
    /\ UNCHANGED <<extract_vars, resample_vars, day_vars>>

(***************************************************************************)
(* Stage 4: aggregation of simultaneous trades (lines 479-481).            *)
(***************************************************************************)
\* the elements of a set of integers in ascending order
SortedSetSeq(S) ==
    SubSeq([r \in 1..Cardinality(S) |->
               CHOOSE t \in S : Cardinality({u \in S : u < t}) = r - 1],
           1, Cardinality(S))

\* A price that is a quotient is the pair <<num, den>>; the missing price
\* (NaN) is the pair with denominator 0.
NaNPrice == <<0, 0>>
IsNaN(p) == p[2] = 0
SameValue(p, q) == p[2] # 0 /\ q[2] # 0 /\ p[1] * q[2] = q[1] * p[2]

\* the lower of the two middle prices
Median_low(prices) ==
    LET w == np_sort(prices)
    IN  <<w[(Len(w) + 1) \div 2], 1>>

\* the median of a non-empty sequence of integer prices
Median(prices) ==
    LET w == np_sort(prices)
        n == Len(w)
    IN  IF n % 2 = 1 THEN <<w[(n + 1) \div 2], 1>>
        ELSE <<w[n \div 2] + w[(n \div 2) + 1], 2>>

\* groupby(['sym_root', 'date', 'time_m']): the keys present, sorted
\* (SymbolPool is in alphabetical order)
GroupKeys(rows) ==
    LET syms  == SelectSeq(SymbolPool,
                           LAMBDA sy : \E j \in 1..Len(rows) : rows[j].sym_root = sy)
        dates == SortedSetSeq({rows[j].date : j \in 1..Len(rows)})
        times(sy, d) == SortedSetSeq({rows[j].time_m : j \in
                            {j2 \in 1..Len(rows) : /\ rows[j2].sym_root = sy
                                                   /\ rows[j2].date = d}})
        day(sy, d) == LET ts == times(sy, d)
                      IN  SubSeq([r \in 1..Len(ts) |->
                                     [sym_root |-> sy, date |-> d, time_m |-> ts[r]]],
                                 1, Len(ts))
        bysym == [a \in 1..Len(syms) |->
                    Concat([b \in 1..Len(dates) |-> day(syms[a], dates[b])],
                           1, Len(dates))]
    IN  Concat(bysym, 1, Len(syms))

\* the rows of one group
Group(rows, key) ==
    SelectSeq(rows, LAMBDA t : /\ t.sym_root = key.sym_root /\ t.date = key.date
                               /\ t.time_m = key.time_m)

\* line 479: the key columns and the median price of every group
price_median(rows) ==
    LET keys == GroupKeys(rows)
    IN  SubSeq([r \in 1..Len(keys) |->
                   LET grp == Group(rows, keys[r])
                   IN  [sym_root |-> keys[r].sym_root, date |-> keys[r].date,
                        time_m |-> keys[r].time_m,
                        price |-> Median([j \in 1..Len(grp) |-> grp[j].price])]],
               1, Len(keys))

\* line 480: the summed size of every group
volume_sum(rows) ==
    LET keys == GroupKeys(rows)
    IN  SubSeq([r \in 1..Len(keys) |->
                   LET grp == Group(rows, keys[r])
                   IN  SumRange([j \in 1..Len(grp) |-> grp[j].size], 1, Len(grp))],
               1, Len(keys))

\* lines 479-481: the two frames side by side, row by row
Aggregate(rows) ==
    LET pm == price_median(rows)
        vs == volume_sum(rows)
    IN  SubSeq([r \in 1..Len(pm) |->
                   [sym_root |-> pm[r].sym_root, date |-> pm[r].date,
                    time_m |-> pm[r].time_m, price |-> pm[r].price,
                    size |-> vs[r]]],
               1, Len(pm))

(***************************************************************************)
(* Stage 4: resampling of one symbol-day (lines 514-537).  A row of the    *)
(* resampled frames is [time, sym_root, price, size]; a missing sym_root   *)
(* is "", a missing size is NoValue.                                       *)
(***************************************************************************)
\* resample(freq, label='right', closed='right'): the bins end at the
\* multiples of freq since midnight; a time belongs to the bin ending at or
\* after it
BinLabel(t, freq) == ((t + freq - 1) \div freq) * freq

\* the first price of the bin
BinLast_first(mem) == mem[1].price

\* line 517: last() on the price column of a bin with members
BinLast(mem) == mem[Len(mem)].price

\* lines 517-519: every bin from the first observation's to the last one's;
\* last() of an empty bin is missing, sum() of an empty bin is 0
ResampleBins(df_sym_day_, freq) ==
    IF df_sym_day_ = <<>> THEN <<>>
    ELSE LET first == BinLabel(df_sym_day_[1].time_m, freq)
             last  == BinLabel(df_sym_day_[Len(df_sym_day_)].time_m, freq)
             nb    == ((last - first) \div freq) + 1
         IN  SubSeq([b \in 1..nb |->
                 LET label == first + (b - 1) * freq
                     mem == SelectSeq(df_sym_day_,
                                      LAMBDA t : BinLabel(t.time_m, freq) = label)
                 IN  [time     |-> label,
                      sym_root |-> IF mem = <<>> THEN "" ELSE mem[Len(mem)].sym_root,
                      price    |-> IF mem = <<>> THEN NaNPrice ELSE BinLast(mem),
                      size     |-> SumRange([j \in 1..Len(mem) |-> mem[j].size],
                                            1, Len(mem))]],
                 1, nb)

\* a range that stops before end_time_
DateRange_open(start_time_, end_time_, freq) ==
    [ix \in 1..((end_time_ - start_time_ + freq - 1) \div freq) |->
        start_time_ + (ix - 1) * freq]

\* line 523: pd.date_range(start, end, freq)
DateRange(start_time_, end_time_, freq) ==
    IF end_time_ < start_time_ THEN <<>>
    ELSE SubSeq([ix \in 1..(((end_time_ - start_time_) \div freq) + 1) |->
                    start_time_ + (ix - 1) * freq],
                1, ((end_time_ - start_time_) \div freq) + 1)

\* lines 524-525: the left join of the grid with the resampled frame
JoinGrid(index_extended, resampled) ==
    SubSeq([ix \in 1..Len(index_extended) |->
               LET m == SelectSeq(resampled, LAMBDA r : r.time = index_extended[ix])
               IN  IF m = <<>>
                   THEN [time |-> index_extended[ix], sym_root |-> "",
                         price |-> NaNPrice, size |-> NoValue]
                   ELSE m[1]],
           1, Len(index_extended))

\* the nearest positions before and after ix that hold a price, 0 if none
PrevValid(ps, ix) ==
    LET c == {a \in 1..(ix - 1) : ~IsNaN(ps[a])}
    IN  IF c = {} THEN 0 ELSE CHOOSE a \in c : \A x \in c : x <= a
NextValid(ps, ix) ==
    LET c == {b \in (ix + 1)..Len(ps) : ~IsNaN(ps[b])}
    IN  IF c = {} THEN 0 ELSE CHOOSE b \in c : \A x \in c : b <= x

\* the previous price carried forward
Lerp_previous(pa, pb, j, g) == pa

\* the value at j of g equal steps from pa to pb
Lerp(pa, pb, j, g) ==
    <<pa[1] * pb[2] * (g - j) + pb[1] * pa[2] * j, pa[2] * pb[2] * g>>

\* line 531: Series.interpolate(method='linear'): a missing value between
\* two prices is interpolated by position, a missing value after the last
\* price takes the last price, a missing value before the first price stays
Interpolate(ps) ==
    SubSeq([ix \in 1..Len(ps) |->
               IF ~IsNaN(ps[ix]) THEN ps[ix]
               ELSE LET a == PrevValid(ps, ix)
                        b == NextValid(ps, ix)
                    IN  IF a = 0 THEN NaNPrice
                        ELSE IF b = 0 THEN ps[a]
                        ELSE Lerp(ps[a], ps[b], ix - a, b - a)],
           1, Len(ps))

\* line 532: fillna(method='bfill'): a missing value takes the next price
Bfill(ps) ==
    SubSeq([ix \in 1..Len(ps) |->
               IF ~IsNaN(ps[ix]) THEN ps[ix]
               ELSE IF NextValid(ps, ix) = 0 THEN NaNPrice
               ELSE ps[NextValid(ps, ix)]],
           1, Len(ps))

\* lines 531-535 on the joined frame
GapFill(df_resampled_, symbol_, date_) ==
    LET filled == Bfill(Interpolate([ix \in 1..Len(df_resampled_) |->
                                        df_resampled_[ix].price]))
    IN  SubSeq([ix \in 1..Len(df_resampled_) |->
                   [sym_root |-> symbol_, date |-> date_,
                    time_m |-> df_resampled_[ix].time,
                    price |-> filled[ix], size |-> df_resampled_[ix].size]],
               1, Len(df_resampled_))

\* line 514: the aggregated rows of the symbol-day
DfSymDay(output_aggregate_, symbol_, date_) ==
    SelectSeq(output_aggregate_, LAMBDA t : t.sym_root = symbol_ /\ t.date = date_)

\* lines 514-525 for one symbol-day: the joined frame before gap filling
JoinedDay(symbol_, date_, freq) ==
    JoinGrid(DateRange(start_time, end_time, freq),
             ResampleBins(DfSymDay(output_aggregate, symbol_, date_), freq))

\* lines 514-535 for one symbol-day: the counts of line 527-528 and the rows
\* appended to output_resampled
ResampledDay(symbol_, date_, freq) ==
    LET joined == JoinedDay(symbol_, date_, freq)
    IN  [num_nan |-> Cardinality({ix \in 1..Len(joined) : joined[ix].sym_root = ""}),
         num_tot |-> Len(joined),
         rows    |-> GapFill(joined, symbol_, date_)]

\* lines 500-501: nan_frame with its symbol column filled
NewNanFrame ==
    [p \in 1..Len(symbol_list) |->
        [symbol |-> symbol_list[p], freq |-> NoValue, ratio |-> NaNPrice]]

\* lines 479-501: the aggregation, then the set-up of the resampling search
AggregateStep ==
    /\ pc = "aggregate"
    /\ output_aggregate' = Aggregate(output_filtered)
    /\ nan_frame' = NewNanFrame
    /\ pc' = "resample"
    /\ UNCHANGED <<error, extract_vars, outlier_vars, freq_list, freq_count, output_resampled,
                   output_resampled_f, files, day_vars>>

\* ratio < nan_frame.loc[pos, 'ratio'] on quotients (false on a NaN)
RatioLess(r, q) == r[2] # 0 /\ q[2] # 0 /\ r[1] * q[2] < q[1] * r[2]

\* One pass of the loop over the symbols for the step freq_list[freq_count]
\* (lines 505-551): the symbol's days are resampled and appended to
\* output_resampled (emptied at the first symbol of each step), the missing
\* ratio decides whether the step becomes the symbol's best and
\* output_resampled_f the frame built so far.
ResampleSymbol ==
    /\ pc = "resample"
    /\ LET freq == freq_list[freq_count + 1]
           sym  == symbol_list[pos + 1]
           days == SubSeq([d \in 1..Len(date_list) |->
                              ResampledDay(sym, date_list[d], freq)],
                          1, Len(date_list))
           num_nan_sym == SumRange([d \in 1..Len(days) |-> days[d].num_nan], 1, Len(days))
           num_tot_sym == SumRange([d \in 1..Len(days) |-> days[d].num_tot], 1, Len(days))
           ratio == <<num_nan_sym, num_tot_sym>>
           appended == (IF pos = 0 THEN <<>> ELSE output_resampled)
                       \o Concat([d \in 1..Len(days) |-> days[d].rows], 1, Len(days))
           better == freq_count = 0 \/ RatioLess(ratio, nan_frame[pos + 1].ratio)
       IN  /\ output_resampled' = appended
           /\ nan_frame' = IF better
                           THEN [nan_frame EXCEPT ![pos + 1] =
                                    [symbol |-> sym, freq |-> freq, ratio |-> ratio]]
                           ELSE nan_frame
           /\ output_resampled_f' = IF better THEN appended ELSE output_resampled_f
           /\ IF pos + 1 < Len(symbol_list)
              THEN pos' = pos + 1 /\ pc' = "resample" /\ UNCHANGED freq_count
              ELSE /\ pos' = 0
                   /\ IF freq_count + 1 < Len(freq_list)
                      THEN freq_count' = freq_count + 1 /\ pc' = "resample"
                      ELSE freq_count' = freq_count /\ pc' = "export"
    /\ UNCHANGED <<error, extract_vars, count, outlier_frame, not_outlier_sym_f,
                   not_outlier_series, output_filtered, output_aggregate, files,
                   freq_list, day_vars>>

(***************************************************************************)
(* Stage 5: the export (lines 589-617).                                    *)
(***************************************************************************)
\* all rows of the frame, columns date, time_m, price
ExportData_all(frame, symbol_) ==
    SubSeq([ix \in 1..Len(frame) |->
               [date |-> frame[ix].date, time_m |-> frame[ix].time_m,
                price |-> frame[ix].price]],
           1, Len(frame))

\* lines 601, 616: the symbol's rows of output_resampled_f, columns date,
\* time_m, price
ExportData(frame, symbol_) ==
    LET rows == SelectSeq(frame, LAMBDA r : r.sym_root = symbol_)
    IN  SubSeq([ix \in 1..Len(rows) |->
                   [date |-> rows[ix].date, time_m |-> rows[ix].time_m,
                    price |-> rows[ix].price]],
               1, Len(rows))

\* one pass of the loop that writes <symbol>/data.csv
ExportSymbol ==
    /\ pc = "export"
    /\ files' = Append(files, [symbol |-> symbol_list[pos + 1],
                               data |-> ExportData(output_resampled_f,
                                                   symbol_list[pos + 1])])
    /\ IF pos + 1 < Len(symbol_list)
       THEN pos' = pos + 1 /\ pc' = "export"
       ELSE pos' = pos /\ pc' = "done"
    /\ UNCHANGED <<error, extract_vars, count, outlier_frame, not_outlier_sym_f,
                   not_outlier_series, output_filtered, output_aggregate,
                   freq_list, freq_count, nan_frame, output_resampled,
                   output_resampled_f, day_vars>>

(***************************************************************************)
(* One symbol-day through the filter at one grid point, pass by pass of    *)
(* the loop over i, then through aggregation, resampling and export.  The  *)
(* day's prices, k and y are inputs: the program's grid and the small      *)
(* windows of hand-sized days.                                             *)
(***************************************************************************)
MaxDayLen == 4

PriceSet == {10000, 10005, 15000}
FilterKs == {3, 5} \cup Range(k_list)
SpikeDayLens == {50, 64}

\* a constant-price day of n trades with one spike at position s
SpikeDay(n, s) == [j \in 1..n |-> IF j = s THEN 15000 ELSE 10000]

DayPrices ==
    UNION {[1..n -> PriceSet] : n \in 1..MaxDayLen}
    \cup {SpikeDay(n, s) : n \in SpikeDayLens, s \in 1..64}

\* the times (tenths of a second after the start time) and sizes of the
\* day's trades by position
DayTime(j) == IF j <= 3 THEN <<0, 5, 12>>[j] ELSE 12 + ((j - 3) \div 8)
DaySize(j) == IF j <= 3 THEN <<10, 20, 5>>[j] ELSE 1 + (j % 3)

DayTrades(symbol_, date_, prices) ==
    SubSeq([j \in 1..Len(prices) |->
               [sym_root |-> symbol_, date |-> date_, time_m |-> DayTime(j),
                price |-> prices[j], size |-> DaySize(j)]],
           1, Len(prices))

\* the state after the extraction of one symbol on one date
Extracted(trades) ==
    /\ count_1 = 0
    /\ date_iter = date_list
    /\ date_pos = 1
    /\ attempt = 0
    /\ raw_sql_log = <<"returned">>
    /\ queried_trades = trades
    /\ success_query_sql = TRUE
    /\ remove_dates = <<>>
    /\ warning_queried_trades = <<>>
    /\ warning_query_sql = <<>>
    /\ warning_ctm_date = <<>>
    /\ n_obs_table = <<[symbol |-> symbol_list[1],
                        min_n_obs |-> Len(trades), min_n_obs_day |-> date_list[1],
                        max_n_obs |-> Len(trades), max_n_obs_day |-> date_list[1]]>>
    /\ count_2 = 1
    /\ min_n_obs = Len(trades)
    /\ max_n_obs = Len(trades)
    /\ output = trades

InitFilter ==
    /\ pc = "day"
    /\ error = ""
    /\ symbol_list = <<"AAPL">>
    /\ date_list = <<1>>
    /\ start_time = 0
    /\ end_time = 20
    /\ start_date = 1
    /\ end_date = 1
    /\ suffix_query = [sy \in Range(symbol_list) |-> "is null"]
    /\ message = ""
    /\ exit_status = NoValue
    /\ \E prices \in DayPrices : Extracted(DayTrades("AAPL", 1, prices))
    /\ pos = 0
    /\ count = 0
    /\ outlier_frame = NewOutlierFrame
    /\ not_outlier_sym_f = <<>>
    /\ not_outlier_series = <<>>
    /\ output_filtered = <<>>
    /\ output_aggregate = <<>>
    /\ freq_list = freq_list_code
    /\ freq_count = 0
    /\ nan_frame = <<>>
    /\ output_resampled = <<>>
    /\ output_resampled_f = <<>>
    /\ files = <<>>
    /\ price_sym_day = <<>>
    /\ k \in FilterKs
    /\ y \in Range(y_list)
    /\ i = 0
    /\ window = <<>>
    /\ rolling = <<>>
    /\ outlier_sym = <<>>
    /\ not_outlier_sym = <<>>

\* lines 403-412: the day's prices, the first window, the empty statistics
DayBegin ==
    /\ pc = "day"
    /\ price_sym_day' = PriceSymDay(output, symbol_list[pos + 1], date_list[1])
    /\ window' = np_sort(Slice(price_sym_day', 0, k))
    /\ rolling' = SubSeq([j \in 1..Len(price_sym_day') |-> NaN],
                         1, Len(price_sym_day'))
    /\ i' = center_beg(k)
    /\ pc' = "rolling"
    /\ UNCHANGED <<error, extract_vars, outlier_vars, resample_vars, k, y,
                   outlier_sym, not_outlier_sym>>

\* lines 414-423: one pass of the loop over range(center_beg, center_end)
RollingPass ==
    /\ pc = "rolling"
    /\ i < center_end(Len(price_sym_day), k)
    /\ LET lp == RollingStep(price_sym_day, k,
                             [window |-> window, rolling |-> rolling], i)
       IN  /\ window' = lp.window
           /\ rolling' = lp.rolling
    /\ i' = i + 1
    /\ UNCHANGED <<pc, error, extract_vars, outlier_vars, resample_vars,
                   price_sym_day, k, y, outlier_sym, not_outlier_sym>>

\* lines 425-455 once the loop is over: the edge copies (IndexError on a day
\* of at most center_beg trades), the two comparisons, the grid point's
\* record and the masking of output
DayMask ==
    /\ pc = "rolling"
    /\ i >= center_end(Len(price_sym_day), k)
    /\ IF DayRaises(Len(price_sym_day), k)
       THEN /\ pc' = "raised"
            /\ error' = "IndexError"
            /\ UNCHANGED <<outlier_vars, outlier_sym, not_outlier_sym>>
       ELSE LET st == EdgeCopy(rolling, k)
                n == Len(price_sym_day)
            IN  /\ outlier_sym' =
                       SubSeq([j \in 1..n |-> IsOutlier(price_sym_day[j], st[j], y)], 1, n)
                /\ not_outlier_sym' =
                       SubSeq([j \in 1..n |-> IsInlier(price_sym_day[j], st[j], y)], 1, n)
                /\ outlier_frame' = [outlier_frame EXCEPT ![pos + 1] =
                                        [symbol |-> symbol_list[pos + 1],
                                         out_num |-> CountTrue(outlier_sym'),
                                         k |-> k, y |-> y]]
                /\ not_outlier_sym_f' = not_outlier_sym'
                /\ not_outlier_series' = not_outlier_sym'
                /\ output_filtered' = MaskRows(output, not_outlier_sym')
                /\ pc' = "aggregate"
                /\ UNCHANGED <<error, pos, count>>
    /\ UNCHANGED <<extract_vars, resample_vars, price_sym_day, k, y, i, window,
                   rolling>>

NextFilter ==
    \/ DayBegin
    \/ RollingPass
    \/ DayMask
    \/ AggregateStep
    \/ ResampleSymbol
    \/ ExportSymbol

SpecFilter == InitFilter /\ [][NextFilter]_vars

(***************************************************************************)
(* The aggregation, resampling and export of filtered trades drawn from    *)
(* bounded sets: one symbol on two dates, the first date's trades, the     *)
(* start time and the end time vary.                                       *)
(***************************************************************************)
MaxObs == 3

ObsTimes == {0, 5, 20, 33, 60, 75, 80}
StartTimes == {0, 10}
EndTimes == {60, 80}
ObsPrices == {10000, 10400}

\* the trades of the second date
FixedDay(symbol_, date_) ==
    <<[sym_root |-> symbol_, date |-> date_, time_m |-> 33, price |-> 20000,
       size |-> 7]>>

\* the sequences of at most MaxObs trades in time order with times in
\* [start_time_, end_time_]
ObsDays(symbol_, date_, start_time_, end_time_) ==
    LET T == {t \in ObsTimes : start_time_ <= t /\ t <= end_time_}
    IN  UNION {{[j \in 1..n |->
                    [sym_root |-> symbol_, date |-> date_, time_m |-> tf[j],
                     price |-> pf[j], size |-> 1 + ((tf[j] + j) % 3)]] :
                 tf \in {f \in [1..n -> T] : \A a \in 1..(n - 1) : f[a] <= f[a + 1]},
                 pf \in [1..n -> ObsPrices]} : n \in 1..MaxObs}

InitResample ==
    /\ pc = "aggregate"
    /\ error = ""
    /\ symbol_list = <<"AAPL">>
    /\ date_list = <<1, 2>>
    /\ start_time \in StartTimes
    /\ end_time \in EndTimes
    /\ \E day \in ObsDays("AAPL", 1, start_time, end_time) :
          output = day \o FixedDay("AAPL", 2)
    /\ start_date = 1
    /\ end_date = 2
    /\ suffix_query = [sy \in Range(symbol_list) |-> "is null"]
    /\ message = ""
    /\ exit_status = NoValue
    /\ count_1 = 0
    /\ date_iter = date_list
    /\ date_pos = 2
    /\ attempt = 0
    /\ raw_sql_log = <<"returned">>
    /\ queried_trades = FixedDay("AAPL", 2)
    /\ success_query_sql = TRUE
    /\ remove_dates = <<>>
    /\ warning_queried_trades = <<>>
    /\ warning_query_sql = <<>>
    /\ warning_ctm_date = <<>>
    /\ count_2 = 2
    /\ min_n_obs = 1
    /\ max_n_obs = Max2(1, Len(output) - 1)
    /\ n_obs_table = <<[symbol |-> "AAPL",
                        min_n_obs |-> 1,
                        min_n_obs_day |-> IF Len(output) = 2 THEN 1 ELSE 2,
                        max_n_obs |-> max_n_obs,
                        max_n_obs_day |-> 1]>>
    /\ pos = 0
    /\ count = 0
    /\ outlier_frame = <<[symbol |-> "AAPL", out_num |-> 0,
                          k |-> ky_array[1].k, y |-> ky_array[1].y]>>
    /\ not_outlier_sym_f = [j \in 1..Len(output) |-> TRUE]
    /\ not_outlier_series = not_outlier_sym_f
    /\ output_filtered = output
    /\ output_aggregate = <<>>
    /\ freq_list = freq_list_code
    /\ freq_count = 0
    /\ nan_frame = <<>>
    /\ output_resampled = <<>>
    /\ output_resampled_f = <<>>
    /\ files = <<>>
    /\ price_sym_day = <<>>
    /\ k = 0
    /\ y = 0
    /\ i = 0
    /\ window = <<>>
    /\ rolling = <<>>
    /\ outlier_sym = <<>>
    /\ not_outlier_sym = <<>>

NextResample ==
    \/ AggregateStep
    \/ ResampleSymbol
    \/ ExportSymbol

SpecResample == InitResample /\ [][NextResample]_vars

(***************************************************************************)
(* The resampling search over several candidate steps: two symbols on one  *)
(* date, each symbol's trades and the list of steps drawn from bounded     *)
(* sets.                                                                   *)
(***************************************************************************)
MaxStepObs == 2

StepTimes == {0, 10, 20, 30, 50, 100}
StepEnd == 100
StepLists == {freq_list_code, <<10, 20>>, <<20, 10>>, <<20, 50>>, freq_list_alternative}

\* the sequences of at most MaxStepObs trades in time order
StepDays(symbol_, date_) ==
    UNION {{[j \in 1..n |->
                [sym_root |-> symbol_, date |-> date_, time_m |-> tf[j],
                 price |-> 10000 + 100 * j, size |-> j]] :
             tf \in {f \in [1..n -> StepTimes] : \A a \in 1..(n - 1) : f[a] <= f[a + 1]}} :
           n \in 1..MaxStepObs}

InitSteps ==
    /\ pc = "aggregate"
    /\ error = ""
    /\ symbol_list = <<"AAPL", "AMZN">>
    /\ date_list = <<1>>
    /\ start_time = 0
    /\ end_time = StepEnd
    /\ \E day1 \in StepDays("AAPL", 1), day2 \in StepDays("AMZN", 1) :
          /\ output = day1 \o day2
          /\ queried_trades = day2
          /\ n_obs_table = <<[symbol |-> "AAPL",
                              min_n_obs |-> Len(day1), min_n_obs_day |-> 1,
                              max_n_obs |-> Len(day1), max_n_obs_day |-> 1],
                             [symbol |-> "AMZN",
                              min_n_obs |-> Len(day2), min_n_obs_day |-> 1,
                              max_n_obs |-> Len(day2), max_n_obs_day |-> 1]>>
          /\ min_n_obs = Len(day2)
          /\ max_n_obs = Len(day2)
          /\ not_outlier_sym_f = [j \in 1..Len(day2) |-> TRUE]
    /\ start_date = 1
    /\ end_date = 1
    /\ suffix_query = [sy \in Range(symbol_list) |-> "is null"]
    /\ message = ""
    /\ exit_status = NoValue
    /\ count_1 = 1
    /\ date_iter = date_list
    /\ date_pos = 1
    /\ attempt = 0
    /\ raw_sql_log = <<"returned">>
    /\ success_query_sql = TRUE
    /\ remove_dates = <<>>
    /\ warning_queried_trades = <<>>
    /\ warning_query_sql = <<>>
    /\ warning_ctm_date = <<>>
    /\ count_2 = 1
    /\ pos = 0
    /\ count = 0
    /\ outlier_frame = [p \in 1..2 |->
                           [symbol |-> symbol_list[p], out_num |-> 0,
                            k |-> ky_array[1].k, y |-> ky_array[1].y]]
    /\ not_outlier_series = [j \in 1..Len(output) |-> TRUE]
    /\ output_filtered = output
    /\ output_aggregate = <<>>
    /\ freq_list \in StepLists
    /\ freq_count = 0
    /\ nan_frame = <<>>
    /\ output_resampled = <<>>
    /\ output_resampled_f = <<>>
    /\ files = <<>>
    /\ price_sym_day = <<>>
    /\ k = 0
    /\ y = 0
    /\ i = 0
    /\ window = <<>>
    /\ rolling = <<>>
    /\ outlier_sym = <<>>
    /\ not_outlier_sym = <<>>

NextSteps ==
    \/ AggregateStep
    \/ ResampleSymbol
    \/ ExportSymbol

SpecSteps == InitSteps /\ [][NextSteps]_vars

(***************************************************************************)
(* The extraction over tables of a few trades: two symbols on three dates, *)
(* the number of trades of every symbol-day drawn from a bounded set.      *)
(***************************************************************************)
MaxCount == 3

CountDates == <<1, 2, 3>>

\* the trades of a symbol-day that has c trades
CountedRows(symbol_, date_, c) ==
    [j \in 1..c |-> [sym_root |-> symbol_, date |-> date_, time_m |-> 5 * j,
                     price |-> 10000 + j, size |-> j]]

\* lines 212, 224-226, 294-308 on such a table
RawSqlReturnsCounted ==
    /\ pc \in {"query", "query_sql"}
    /\ date_iter # <<>>
    /\ cur_attempt < max_attempts
    /\ \E c \in 0..MaxCount : Returned(CountedRows(symbol, date, c))

InitCount ==
    /\ pc = "query"
    /\ error = ""
    /\ symbol_list = <<"AAPL", "AMZN">>
    /\ date_list = CountDates
    /\ start_time = 0
    /\ end_time = 80
    /\ start_date = 1
    /\ end_date = 3
    /\ suffix_query = [sy \in Range(symbol_list) |-> "is null"]
    /\ message = ""
    /\ exit_status = NoValue
    /\ count_1 = 0
    /\ date_iter = date_list
    /\ date_pos = 1
    /\ attempt = 0
    /\ raw_sql_log = <<>>
    /\ queried_trades = <<>>
    /\ success_query_sql = FALSE
    /\ remove_dates = <<>>
    /\ warning_queried_trades = <<>>
    /\ warning_query_sql = <<>>
    /\ warning_ctm_date = <<>>
    /\ n_obs_table = <<NewRow(symbol_list[1])>>
    /\ count_2 = 0
    /\ min_n_obs = NoValue
    /\ max_n_obs = NoValue
    /\ output = <<>>
    /\ pos = 0
    /\ count = 0
    /\ outlier_frame = <<>>
    /\ not_outlier_sym_f = <<>>
    /\ not_outlier_series = <<>>
    /\ output_filtered = <<>>
    /\ output_aggregate = <<>>
    /\ freq_list = freq_list_code
    /\ freq_count = 0
    /\ nan_frame = <<>>
    /\ output_resampled = <<>>
    /\ output_resampled_f = <<>>
    /\ files = <<>>
    /\ price_sym_day = <<>>
    /\ k = 0
    /\ y = 0
    /\ i = 0
    /\ window = <<>>
    /\ rolling = <<>>
    /\ outlier_sym = <<>>
    /\ not_outlier_sym = <<>>

NextCount == RawSqlReturnsCounted

SpecCount == InitCount /\ [][NextCount]_vars

(***************************************************************************)
(* The input check on command lines drawn from bounded sets: the symbols,  *)
(* the dates and the times around the limits, or the debug settings.       *)
(***************************************************************************)
MaxInputSymbols == 2

InputSymbols == {"AAPL", "GOOG", "LBTYA", "LBTY", "FOX", "FOXA"}
InputDates == {min_start_date - 1, min_start_date, min_start_date + 2,
               max_end_date, max_end_date + 1}
InputTimes == {min_start_time - 10, min_start_time, max_end_time, max_end_time + 10}

\* lines 74-99: the state after the command line is parsed and the debug
\* settings are applied
InitInput ==
    /\ pc = "symbols"
    /\ error = ""
    /\ \/ /\ symbol_list = debug_symbol_list
          /\ start_date = debug_start_date
          /\ end_date = debug_end_date
          /\ start_time = debug_start_time
          /\ end_time = debug_end_time
       \/ /\ symbol_list \in UNION {[1..n -> InputSymbols] : n \in 1..MaxInputSymbols}
          /\ start_date \in InputDates
          /\ end_date \in InputDates
          /\ start_time \in InputTimes
          /\ end_time \in InputTimes
    /\ date_list = <<>>
    /\ suffix_query = <<>>
    /\ message = ""
    /\ exit_status = NoValue
    /\ count_1 = 0
    /\ date_iter = <<>>
    /\ date_pos = 1
    /\ attempt = 0
    /\ raw_sql_log = <<>>
    /\ queried_trades = <<>>
    /\ success_query_sql = FALSE
    /\ remove_dates = <<>>
    /\ warning_queried_trades = <<>>
    /\ warning_query_sql = <<>>
    /\ warning_ctm_date = <<>>
    /\ n_obs_table = <<>>
    /\ count_2 = 0
    /\ min_n_obs = NoValue
    /\ max_n_obs = NoValue
    /\ output = <<>>
    /\ pos = 0
    /\ count = 0
    /\ outlier_frame = <<>>
    /\ not_outlier_sym_f = <<>>
    /\ not_outlier_series = <<>>
    /\ output_filtered = <<>>
    /\ output_aggregate = <<>>
    /\ freq_list = freq_list_code
    /\ freq_count = 0
    /\ nan_frame = <<>>
    /\ output_resampled = <<>>
    /\ output_resampled_f = <<>>
    /\ files = <<>>
    /\ price_sym_day = <<>>
    /\ k = 0
    /\ y = 0
    /\ i = 0
    /\ window = <<>>
    /\ rolling = <<>>
    /\ outlier_sym = <<>>
    /\ not_outlier_sym = <<>>

NextInput ==
    \/ NormalizeSymbols
    \/ CheckDates
    \/ CheckTimes

SpecInput == InitInput /\ [][NextInput]_vars

(***************************************************************************)
(* The grid search of the filter over days long enough for the program's   *)
(* windows: two symbols on one date; a day's prices alternate around a     *)
(* level but for a block of consecutive trades at a higher price and, on   *)
(* some days of the first symbol, one trade 5 cents above the level; the   *)
(* length of the day and of the block are drawn from bounded sets.         *)
(***************************************************************************)
GridDayLens == {90, 104}
BlockLens == {0, 1, 12}

\* a day of n trades whose block of b trades starts in its middle; with
\* near, the trade at a quarter of the day is 5 cents above the level
GridDay(symbol_, date_, n, b, near) ==
    [j \in 1..n |->
        [sym_root |-> symbol_, date |-> date_, time_m |-> 5 * (j \div 8),
         price |-> IF (n \div 2) <= j /\ j < (n \div 2) + b THEN 10500
                   ELSE IF near /\ j = n \div 4 THEN 10005
                   ELSE 10000 + (j % 2),
         size |-> 1 + (j % 3)]]

GridDays(symbol_, date_, nears) ==
    {GridDay(symbol_, date_, n, b, near) :
        n \in GridDayLens, b \in BlockLens, near \in nears}

InitGrid ==
    /\ pc = "outlier"
    /\ error = ""
    /\ symbol_list = <<"AAPL", "AMZN">>
    /\ date_list = <<1>>
    /\ start_date = 1
    /\ end_date = 1
    /\ start_time = 0
    /\ end_time = 80
    /\ suffix_query = [sy \in Range(symbol_list) |-> "is null"]
    /\ message = ""
    /\ exit_status = NoValue
    /\ \E day1 \in GridDays("AAPL", 1, BOOLEAN), day2 \in GridDays("AMZN", 1, {FALSE}) :
          /\ output = day1 \o day2
          /\ queried_trades = day2
          /\ n_obs_table = <<[symbol |-> "AAPL",
                              min_n_obs |-> Len(day1), min_n_obs_day |-> 1,
                              max_n_obs |-> Len(day1), max_n_obs_day |-> 1],
                             [symbol |-> "AMZN",
                              min_n_obs |-> Len(day2), min_n_obs_day |-> 1,
                              max_n_obs |-> Len(day2), max_n_obs_day |-> 1]>>
          /\ min_n_obs = Len(day2)
          /\ max_n_obs = Len(day2)
    /\ count_1 = 1
    /\ date_iter = date_list
    /\ date_pos = 1
    /\ attempt = 0
    /\ raw_sql_log = <<"returned">>
    /\ success_query_sql = TRUE
    /\ remove_dates = <<>>
    /\ warning_queried_trades = <<>>
    /\ warning_query_sql = <<>>
    /\ warning_ctm_date = <<>>
    /\ count_2 = 1
    /\ pos = 0
    /\ count = 0
    /\ outlier_frame = NewOutlierFrame
    /\ not_outlier_sym_f = <<>>
    /\ not_outlier_series = <<>>
    /\ output_filtered = <<>>
    /\ output_aggregate = <<>>
    /\ freq_list = freq_list_code
    /\ freq_count = 0
    /\ nan_frame = <<>>
    /\ output_resampled = <<>>
    /\ output_resampled_f = <<>>
    /\ files = <<>>
    /\ price_sym_day = <<>>
    /\ k = 0
    /\ y = 0
    /\ i = 0
    /\ window = <<>>
    /\ rolling = <<>>
    /\ outlier_sym = <<>>
    /\ not_outlier_sym = <<>>

NextGrid == GridPoint

SpecGrid == InitGrid /\ [][NextGrid]_vars

(***************************************************************************)
(* Properties of the extraction stage, under Spec.                         *)
(***************************************************************************)
\* the extraction is over and the run went on past line 329
Extraction_done == pc \in {"outlier", "aggregate", "resample", "export", "done"}

\* the frames db.raw_sql can return for the queries of the run
PossibleRows ==
    {<<>>} \cup {SelectRows(symbol_list[s], d, start_time, end_time) :
                    s \in 1..Len(symbol_list), d \in 1..MaxDates}

\* C1: query_sql calls db.raw_sql at most twice; it returns the rows and
\* True at the first attempt that does not raise (every attempt before it
\* raised), and it returns no rows and False exactly when both attempts
\* raised.  (None is modelled as the empty frame.)
C1_QuerySqlRetries ==
    LET n == Len(raw_sql_log)
    IN  /\ n <= 2
        /\ \A a \in 1..(n - 1) : raw_sql_log[a] = "raised"
        /\ pc = "query_sql" => n = 1 /\ raw_sql_log[n] = "raised"
        /\ (pc # "query_sql" /\ n > 0) =>
              /\ raw_sql_log[n] = "returned" =>
                    success_query_sql /\ queried_trades \in PossibleRows
              /\ raw_sql_log[n] = "raised" =>
                    n = 2 /\ ~success_query_sql /\ queried_trades = <<>>
              /\ ~success_query_sql => raw_sql_log = <<"raised", "raised">>

\* a query failed at both attempts earlier in the run, and the latest one
\* returned rows at its second attempt
C1_Witness ==
    /\ warning_query_sql # <<>>
    /\ raw_sql_log = <<"raised", "returned">>
    /\ success_query_sql
    /\ queried_trades # <<>>

\* C2: a query that fails at every attempt leaves an entry for its symbol
\* and date in warning_query_sql and does not abort the run: with a date
\* retained the run never ends with an exception.
C2_FailedQueryDoesNotAbort ==
    /\ (~success_query_sql /\ raw_sql_log = <<"raised", "raised">>) =>
          warning_query_sql # <<>>
    /\ (warning_query_sql # <<>> /\ date_list # <<>>) => pc # "raised"

\* C3: once the extraction is over, a date whose table was missing or that
\* returned no row for some symbol is not in date_list, and output holds no
\* trade of that date for any symbol.
C3_RemovedDatePropagates ==
    Extraction_done =>
        \A d \in Range(remove_dates) \cup Range(warning_ctm_date)
                 \cup {w[2] : w \in Range(warning_queried_trades)} :
            /\ d \notin Range(date_list)
            /\ \A j \in 1..Len(output) : output[j].date # d

\* the first symbol traded on a date (its n_obs_table row names it) that a
\* later symbol removed, and the run went on
C3_Witness ==
    /\ Extraction_done
    /\ Len(symbol_list) = 2
    /\ n_obs_table[1].max_n_obs_day \in Range(remove_dates)
    /\ output # <<>>

\* C4: once the extraction is over without aborting, every symbol has at
\* least one trade in output on every date of date_list, whatever the
\* outcomes of the queries were.
C4_RectangularPanel ==
    Extraction_done =>
        \A s \in 1..Len(symbol_list), d \in Range(date_list) :
            \E j \in 1..Len(output) :
                output[j].sym_root = symbol_list[s] /\ output[j].date = d

\* the variables of the later stages as Init leaves them
LaterStagesUntouched ==
    /\ pos = 0
    /\ count = 0
    /\ outlier_frame = <<>>
    /\ not_outlier_sym_f = <<>>
    /\ not_outlier_series = <<>>
    /\ output_filtered = <<>>
    /\ output_aggregate = <<>>
    /\ freq_list = freq_list_code
    /\ freq_count = 0
    /\ nan_frame = <<>>
    /\ output_resampled = <<>>
    /\ output_resampled_f = <<>>
    /\ files = <<>>

\* C5: when date_list is empty after a symbol's narrowing the run is over:
\* the run has exited, no later symbol is queried, and the filter, the
\* aggregation, the resampling and the export are never executed.
C5_ExitOnNoDates ==
    /\ [](date_list = <<>> => pc = "exited" \/ (pc = "query" /\ count_1 = 0))
    /\ [](pc = "exited" => date_list = <<>> /\ LaterStagesUntouched)
    /\ [][pc # "exited"]_vars

\* the first of two symbols lost its dates: the run exited before the second
\* symbol was queried
C5_Witness ==
    /\ pc = "exited"
    /\ Len(symbol_list) = 2
    /\ count_1 = 0
    /\ remove_dates # <<>>

(***************************************************************************)
(* Properties of the filter of one symbol-day, under SpecFilter.           *)
(***************************************************************************)
\* the prices of the day's trades as extracted
DayPricesOf(output_) == [j \in 1..Len(output_) |-> output_[j].price]

\* the day is one constant price but for a single spike
IsSpikeDay(prices) ==
    /\ Len(prices) >= 3
    /\ \E s \in 1..Len(prices) : prices = SpikeDay(Len(prices), s)

\* the day's pass of the filter is over
DayFiltered == pc \notin {"day", "rolling"}

\* C6: on a day whose prices are one constant but for a single extreme
\* spike, every (k, y) of the program's grid flags the spike as an outlier
\* and flags no other trade, wherever the spike sits.
C6_SpikeFlaggedAtEveryGridPoint ==
    (/\ DayFiltered
     /\ k \in Range(k_list)
     /\ y \in Range(y_list)
     /\ IsSpikeDay(DayPricesOf(output))) =>
        /\ pc # "raised"
        /\ outlier_sym = [j \in 1..Len(output) |-> output[j].price = 15000]

\* the three trades of the scenario, window 3, the grid from 09:30:00 to
\* 09:30:02 (times count tenths of a second from 09:30:00)
Scenario ==
    /\ k = 3
    /\ start_time = 0
    /\ end_time = 20
    /\ DayPricesOf(output) = <<10000, 10005, 15000>>
    /\ [j \in 1..Len(output) |-> output[j].time_m] = <<0, 5, 12>>
    /\ [j \in 1..Len(output) |-> output[j].size] = <<10, 20, 5>>

\* C7 as stated: in the scenario the trade priced 150 is flagged as an
\* outlier and excluded before the aggregation, and 150 never appears in the
\* price column of the 2-second grid.
C7_ScenarioDropsSpike ==
    Scenario =>
        /\ DayFiltered =>
              /\ Len(outlier_sym) = 3
              /\ outlier_sym[3]
              /\ \A j \in 1..Len(output_filtered) : output_filtered[j].price # 15000
        /\ pc \in {"export", "done"} =>
              \A r \in 1..Len(output_resampled_f) :
                  ~SameValue(output_resampled_f[r].price, <<15000, 1>>)

\* C7, amended: in the scenario no trade is flagged (a window of 3 trims
\* nothing, and no value of three lies more than three standard deviations
\* from their mean), the three trades are kept, and the grid has the rows
\* 09:30:00 with price 100 and size 10 and 09:30:02 with price 150, the last
\* price of its interval, and size 25.
C7_ScenarioKeepsSpike ==
    Scenario =>
        /\ DayFiltered =>
              /\ pc # "raised"
              /\ outlier_sym = <<FALSE, FALSE, FALSE>>
              /\ not_outlier_sym = <<TRUE, TRUE, TRUE>>
              /\ output_filtered = output
        /\ pc \in {"export", "done"} =>
              /\ Len(output_resampled_f) = 2
              /\ output_resampled_f[1].time_m = 0
              /\ SameValue(output_resampled_f[1].price, <<10000, 1>>)
              /\ output_resampled_f[1].size = 10
              /\ output_resampled_f[2].time_m = 20
              /\ SameValue(output_resampled_f[2].price, <<15000, 1>>)
              /\ output_resampled_f[2].size = 25

\* the scenario ran to the end
C7_Witness == Scenario /\ pc = "done" /\ y = 2

(***************************************************************************)
(* Properties of the resampling, under SpecResample.                       *)
(***************************************************************************)
Resampled == pc \in {"export", "done"}

\* the rows of a frame for one symbol and date, in order
RowsOf(frame, symbol_, date_) ==
    SelectSeq(frame, LAMBDA r : r.sym_root = symbol_ /\ r.date = date_)

\* C8: for every symbol-day the resampled frame has exactly
\* floor((end - start) / step) + 1 rows, at start, start + step, ... in
\* order: none is missing, none is duplicated.
C8_GridRowsComplete ==
    Resampled =>
        \A s \in 1..Len(symbol_list), d \in Range(date_list) :
            LET rows == RowsOf(output_resampled_f, symbol_list[s], d)
                step == nan_frame[s].freq
                n == ((end_time - start_time) \div step) + 1
            IN  /\ Len(rows) = n
                /\ \A r \in 1..n : rows[r].time_m = start_time + (r - 1) * step

\* a grid that does not start on a bin boundary and does not end on a grid
\* point: four rows per day on two days
C8_Witness ==
    /\ pc = "done"
    /\ start_time = 10
    /\ end_time = 80
    /\ Len(output_resampled_f) = 8

\* the sizes of the filtered trades of the symbol-day with lo < time_m <= hi
SizeIn(symbol_, date_, lo, hi) ==
    LET in == SelectSeq(output_filtered,
                        LAMBDA t : /\ t.sym_root = symbol_ /\ t.date = date_
                                   /\ lo < t.time_m /\ t.time_m <= hi)
    IN  SumRange([j \in 1..Len(in) |-> in[j].size], 1, Len(in))

\* C9: the size of every grid row is the sum of the sizes of the trades of
\* its interval, and exactly 0 when the interval holds no trade, also for
\* the rows before the first and after the last interval with a trade.
C9_VolumeIsSummedNeverFilled ==
    Resampled =>
        \A r \in 1..Len(output_resampled_f) :
            LET row == output_resampled_f[r]
            IN  row.size = SizeIn(row.sym_root, row.date,
                                  row.time_m - nan_frame[1].freq, row.time_m)

\* p - q and the equality of quotients
Diff(p, q) == <<p[1] * q[2] - q[1] * p[2], p[2] * q[2]>>
Times(p, n) == <<p[1] * n, p[2]>>

\* C10: gap filling leaves every known price unchanged, replaces every
\* missing price before the first known price by the first known price, and
\* replaces every run of missing prices between two known prices by evenly
\* spaced values between them.
C10_GapFill ==
    Resampled =>
        \A s \in 1..Len(symbol_list), d \in Range(date_list) :
            LET joined == JoinedDay(symbol_list[s], d, nan_frame[s].freq)
                before == [r \in 1..Len(joined) |-> joined[r].price]
                rows == RowsOf(output_resampled_f, symbol_list[s], d)
                after == [r \in 1..Len(rows) |-> rows[r].price]
                known == {r \in 1..Len(before) : ~IsNaN(before[r])}
            IN  /\ Len(after) = Len(before)
                /\ \A r \in known : after[r] = before[r]
                /\ \A r \in 1..Len(before) :
                      (known # {} /\ \A a \in known : r < a) =>
                          \E a \in known :
                              /\ \A b \in known : a <= b
                              /\ SameValue(after[r], before[a])
                /\ \A a, b \in known :
                      (a < b /\ \A c \in known : ~(a < c /\ c < b)) =>
                          \A q \in (a + 1)..b :
                              SameValue(Times(Diff(after[q], after[q - 1]), b - a),
                                        Diff(before[b], before[a]))

\* a day on the grid 0, 20, ..., 80 with a trade in the second and in the
\* last interval only: one leading missing price, a run of two between the
\* known prices 100 and 104
C10_Witness ==
    /\ pc = "done"
    /\ start_time = 0
    /\ end_time = 80
    /\ Len(output_resampled_f) = 10
    /\ output_resampled_f[1].size = NoValue
    /\ SameValue(output_resampled_f[1].price, <<10000, 1>>)
    /\ SameValue(output_resampled_f[3].price, <<30400, 3>>)
    /\ SameValue(output_resampled_f[4].price, <<30800, 3>>)
    /\ SameValue(output_resampled_f[5].price, <<10400, 1>>)

\* the aggregated trades of the symbol-day with lo < time_m <= hi
AggIn(symbol_, date_, lo, hi) ==
    SelectSeq(output_aggregate,
              LAMBDA t : /\ t.sym_root = symbol_ /\ t.date = date_
                         /\ lo < t.time_m /\ t.time_m <= hi)

\* the row's timestamp ends a resampling bin that holds an aggregated trade
RowObserved(row, step) ==
    /\ row.time_m % step = 0
    /\ AggIn(row.sym_root, row.date, row.time_m - step, row.time_m) # <<>>

\* C11 as stated: the price of every grid row at or after the day's first
\* observation is the last aggregated price observed at or before the row's
\* timestamp.
C11_PriceIsLastObserved ==
    Resampled =>
        \A r \in 1..Len(output_resampled_f) :
            LET row == output_resampled_f[r]
                seen == AggIn(row.sym_root, row.date, 0 - 1, row.time_m)
            IN  seen # <<>> => SameValue(row.price, seen[Len(seen)].price)

\* C11, amended: a grid row whose timestamp ends a bin that holds an
\* observation has the last aggregated price of that bin, which is the last
\* price observed at or before the timestamp; a row after the last such row
\* of its day has the price of that last row.  (The rows between two such
\* rows are interpolated.)
C11_PriceOfObservedAndTrailingRows ==
    Resampled =>
        \A r \in 1..Len(output_resampled_f) :
            LET row == output_resampled_f[r]
                step == nan_frame[1].freq
                seen == AggIn(row.sym_root, row.date, 0 - 1, row.time_m)
                day == RowsOf(output_resampled_f, row.sym_root, row.date)
                obs == {q \in 1..Len(day) : RowObserved(day[q], step)}
            IN  /\ RowObserved(row, step) =>
                      SameValue(row.price, seen[Len(seen)].price)
                /\ (obs # {} /\ \A q \in obs : day[q].time_m < row.time_m) =>
                      \E q \in obs :
                          /\ \A q2 \in obs : q2 <= q
                          /\ SameValue(row.price, day[q].price)

\* two trades at different times and prices in the bin ending at 20, none
\* later: the row at 20 and the rows after it have the second price
C11_Witness ==
    /\ pc = "done"
    /\ start_time = 0
    /\ end_time = 80
    /\ Len(output_filtered) = 3
    /\ output_filtered[1].time_m = 5 /\ output_filtered[1].price = 10000
    /\ output_filtered[2].time_m = 20 /\ output_filtered[2].price = 10400
    /\ SameValue(output_resampled_f[2].price, <<10400, 1>>)
    /\ SameValue(output_resampled_f[5].price, <<10400, 1>>)

\* the symbol's missing ratio at a step: the quotient line 539 computes
RatioAt(symbol_, freq) ==
    LET days == SubSeq([d \in 1..Len(date_list) |->
                           ResampledDay(symbol_, date_list[d], freq)],
                       1, Len(date_list))
    IN  <<SumRange([d \in 1..Len(days) |-> days[d].num_nan], 1, Len(days)),
          SumRange([d \in 1..Len(days) |-> days[d].num_tot], 1, Len(days))>>

\* the symbol's series on all retained days at a step
SeriesAt(symbol_, freq) ==
    Concat([d \in 1..Len(date_list) |->
               ResampledDay(symbol_, date_list[d], freq).rows], 1, Len(date_list))

\* the step recorded for the symbol is the first candidate of smallest ratio
RecordedStepIsBest(s) ==
    \E c \in 1..Len(freq_list) :
        /\ nan_frame[s].freq = freq_list[c]
        /\ nan_frame[s].ratio = RatioAt(symbol_list[s], freq_list[c])
        /\ \A c2 \in 1..Len(freq_list) :
              /\ ~RatioLess(RatioAt(symbol_list[s], freq_list[c2]), nan_frame[s].ratio)
              /\ c2 < c => RatioLess(nan_frame[s].ratio,
                                     RatioAt(symbol_list[s], freq_list[c2]))

\* C12: whatever the list of candidate steps, output_resampled_f holds, for
\* every symbol, the symbol's series on all retained days at the step that
\* nan_frame records for it, the first candidate of smallest missing ratio.
C12_FinalOutputAtRecordedStep ==
    Resampled =>
        \A s \in 1..Len(symbol_list) :
            /\ RecordedStepIsBest(s)
            /\ SelectSeq(output_resampled_f, LAMBDA r : r.sym_root = symbol_list[s])
                   = SeriesAt(symbol_list[s], nan_frame[s].freq)

\* the aggregation has run
Aggregated == pc \in {"resample", "export", "done"}

SameKey(a, b) == a.sym_root = b.sym_root /\ a.date = b.date /\ a.time_m = b.time_m

\* v is the c-th smallest of the prices of the rows
OrderStat(rows, c, v) ==
    /\ Cardinality({j \in 1..Len(rows) : rows[j].price < v}) < c
    /\ c <= Cardinality({j \in 1..Len(rows) : rows[j].price <= v})

\* q is the median of the prices of the rows: the mean of the two middle ones
IsMedian(rows, q) ==
    \E a \in 1..Len(rows), b \in 1..Len(rows) :
        /\ OrderStat(rows, (Len(rows) + 1) \div 2, rows[a].price)
        /\ OrderStat(rows, (Len(rows) \div 2) + 1, rows[b].price)
        /\ SameValue(q, <<rows[a].price + rows[b].price, 2>>)

\* the sum of the sizes of the first n rows
RECURSIVE SizeSum(_, _)
SizeSum(rows, n) == IF n = 0 THEN 0 ELSE SizeSum(rows, n - 1) + rows[n].size

\* C13: output_aggregate has exactly one row for every (symbol, date,
\* timestamp) key among the retained trades; the row's price is the median of
\* the prices of the key's trades and its size, the size set beside that
\* price, is the sum of their sizes; a trade alone on its key keeps its price
\* and size.
C13_AggregateMedianAndSum ==
    Aggregated =>
        /\ \A t \in 1..Len(output_filtered) :
              Cardinality({r \in 1..Len(output_aggregate) :
                              SameKey(output_aggregate[r], output_filtered[t])}) = 1
        /\ \A r \in 1..Len(output_aggregate) :
              LET row == output_aggregate[r]
                  grp == SelectSeq(output_filtered, LAMBDA t : SameKey(t, row))
              IN  /\ grp # <<>>
                  /\ IsMedian(grp, row.price)
                  /\ row.size = SizeSum(grp, Len(grp))
                  /\ Len(grp) = 1 => /\ row.price = <<grp[1].price, 1>>
                                     /\ row.size = grp[1].size

\* two trades at the same time with different prices, after a trade alone on
\* its time
C13_Witness ==
    /\ Aggregated
    /\ Len(output_filtered) = 4
    /\ output_filtered[1].time_m < output_filtered[2].time_m
    /\ output_filtered[2].time_m = output_filtered[3].time_m
    /\ output_filtered[2].price = 10000
    /\ output_filtered[3].price = 10400
    /\ Len(output_aggregate) = 3
    /\ output_aggregate[1].size = output_filtered[1].size
    /\ output_aggregate[2].price = <<20400, 2>>
    /\ output_aggregate[2].size = output_filtered[2].size + output_filtered[3].size

\* the number of trades of the symbol on the date in a frame
CountOf(frame, symbol_, date_) ==
    Cardinality({j \in 1..Len(frame) : /\ frame[j].sym_root = symbol_
                                       /\ frame[j].date = date_})

\* the row is what the counts of the symbol's days in the frame make it: no
\* value without a day, else the least and the greatest count, each with the
\* earliest date that has it
RowOfCounts(row, frame, symbol_) ==
    LET D == {d \in Range(CountDates) : CountOf(frame, symbol_, d) > 0}
    IN  /\ row.symbol = symbol_
        /\ D = {} => /\ row.min_n_obs = NoValue /\ row.min_n_obs_day = NoValue
                     /\ row.max_n_obs = NoValue /\ row.max_n_obs_day = NoValue
        /\ D # {} =>
              /\ row.min_n_obs_day \in D
              /\ row.max_n_obs_day \in D
              /\ row.min_n_obs = CountOf(frame, symbol_, row.min_n_obs_day)
              /\ row.max_n_obs = CountOf(frame, symbol_, row.max_n_obs_day)
              /\ \A d \in D :
                    /\ CountOf(frame, symbol_, d) >= row.min_n_obs
                    /\ CountOf(frame, symbol_, d) <= row.max_n_obs
                    /\ CountOf(frame, symbol_, d) = row.min_n_obs
                           => row.min_n_obs_day <= d
                    /\ CountOf(frame, symbol_, d) = row.max_n_obs
                           => row.max_n_obs_day <= d

\* C14: after every query that returns, the row of every symbol in
\* n_obs_table holds the least and the greatest number of trades among the
\* days returned so far for that symbol alone, each with the first date that
\* has that number (the dates are processed in ascending order).  The days
\* returned so far are those of output before the step, and the day the step
\* returns.
C14_NObsTableTracksOwnExtrema ==
    [][(pc \in {"query", "query_sql"} /\ Returned(queried_trades')) =>
          \A s \in 1..Len(n_obs_table') :
              RowOfCounts(n_obs_table'[s], output \o queried_trades',
                          symbol_list[s])]_vars

\* the second symbol had 2, 1 and 1 trades after a first symbol with 1, 3
\* and 3: its least count is recorded with the second date
C14_Witness ==
    /\ pc = "outlier"
    /\ Len(n_obs_table) = 2
    /\ n_obs_table[1] = [symbol |-> "AAPL", min_n_obs |-> 1, min_n_obs_day |-> 1,
                         max_n_obs |-> 3, max_n_obs_day |-> 2]
    /\ CountOf(output, "AAPL", 3) = 3
    /\ CountOf(output, "AMZN", 3) = 1
    /\ n_obs_table[2] = [symbol |-> "AMZN", min_n_obs |-> 1, min_n_obs_day |-> 2,
                         max_n_obs |-> 2, max_n_obs_day |-> 1]

\* the input check has finished: the run is at its first query or has exited
InputChecked == pc \in {"query", "exited"}

\* the command line is outside the supported dates or times, or its start
\* is after its end
InvalidDates ==
    start_date > end_date \/ start_date < min_start_date \/ end_date > max_end_date
InvalidTimes ==
    start_time > end_time \/ start_time < min_start_time \/ end_time > max_end_time

\* C15: a command line whose start date is after its end date, whose start
\* date is before 2003-09-10 or whose end date is after 2020-03-31 (likewise
\* for the times and 09:30:00, 16:00:00) makes the run print an error and
\* terminate with a non-zero exit status before any query.
C15_InvalidInputExitsNonZero ==
    (InputChecked /\ (InvalidDates \/ InvalidTimes)) =>
        /\ pc = "exited"
        /\ message # ""
        /\ exit_status # NoValue
        /\ exit_status # 0
        /\ raw_sql_log = <<>>

\* C15, the rejection alone: a command line outside the supported dates or
\* times, or with its start after its end, never reaches the first query.
C15_InvalidInputNeverQueries ==
    (InvalidDates \/ InvalidTimes) => pc # "query"

\* C17: whatever the input list, the normalization leaves no LBTYA and no
\* FOX in symbol_list (LBTYA becomes LBTY, FOX becomes FOXA, every other
\* symbol stays), and every symbol of the list has its predicate in
\* suffix_query: ='L' for GOOG, ='K' for an LBTY that replaces an LBTYA,
\* 'is null' for FOXA and for the symbols outside the substitution table.
C17_NormalizedSymbolsHaveSuffix ==
    [][NormalizeSymbols =>
          /\ Len(symbol_list') = Len(symbol_list)
          /\ \A j \in 1..Len(symbol_list) :
                /\ symbol_list'[j] \notin {"LBTYA", "FOX"}
                /\ symbol_list'[j] = (IF symbol_list[j] = "LBTYA" THEN "LBTY"
                                      ELSE IF symbol_list[j] = "FOX" THEN "FOXA"
                                      ELSE symbol_list[j])
                /\ symbol_list'[j] \in DOMAIN suffix_query'
                /\ (symbol_list'[j] = "GOOG") => (suffix_query'["GOOG"] = "='L'")
                /\ (symbol_list[j] = "LBTYA") => (suffix_query'["LBTY"] = "='K'")
                /\ (symbol_list'[j] \notin {"GOOG", "LBTY"})
                       => (suffix_query'[symbol_list'[j]] = "is null")]_vars

\* the resampling search is over: every step has been tried for every
\* symbol, every symbol has its step and its rows on every retained date
ResamplingComplete ==
    /\ pc \in {"export", "done"}
    /\ freq_count + 1 = Len(freq_list)
    /\ Len(nan_frame) = Len(symbol_list)
    /\ \A s \in 1..Len(symbol_list) :
          /\ nan_frame[s].freq \in Range(freq_list)
          /\ \A d \in Range(date_list) :
                RowsOf(output_resampled_f, symbol_list[s], d) # <<>>

\* the file holds the date, time and price of the symbol's rows of the frame,
\* in the frame's order
FileOf(file, frame) ==
    LET rows == SelectSeq(frame, LAMBDA r : r.sym_root = file.symbol)
    IN  /\ Len(file.data) = Len(rows)
        /\ \A j \in 1..Len(rows) :
              /\ file.data[j].date = rows[j].date
              /\ file.data[j].time_m = rows[j].time_m
              /\ file.data[j].price = rows[j].price

\* C16: a data.csv is written only once the resampling is over for every
\* symbol; a run that ended early (exit on an empty date list, or an error)
\* has written none; every file written holds its symbol's rows of the final
\* resampled frame, which no longer changes once a file is written.
C16_ExportOnlyAfterResampling ==
    /\ [](files # <<>> => ResamplingComplete)
    /\ [](pc \in {"exited", "raised"} => files = <<>>)
    /\ [](\A f \in 1..Len(files) :
             /\ files[f].symbol = symbol_list[f]
             /\ FileOf(files[f], output_resampled_f))
    /\ [][files' # files => /\ ResamplingComplete
                            /\ output_resampled_f' = output_resampled_f]_vars

\* two symbols exported, each with rows
C16_Witness ==
    /\ pc = "done"
    /\ Len(files) = 2
    /\ files[1].data # <<>>
    /\ files[2].data # <<>>
    /\ Len(files[1].data) + Len(files[2].data) = Len(output_resampled_f)

\* C18: the filter of a day at a grid point partitions the day's trades: a
\* trade is kept in the inlier mask exactly when it is not counted as an
\* outlier, so that the outliers counted and the trades kept add up to the
\* trades of the day.
C18_FilterPartitionsDay ==
    (DayFiltered /\ pc # "raised") =>
        /\ \A j \in 1..Len(output) : not_outlier_sym[j] = ~outlier_sym[j]
        /\ CountTrue(outlier_sym) + CountTrue(not_outlier_sym) = Len(output)
        /\ Len(output_filtered) = Len(output) - CountTrue(outlier_sym)

\* the outliers the grid point g counts on the retained days of the s-th
\* symbol, and the inlier mask it gives over those days
OutliersAt(s, g) ==
    SumRange([d \in 1..Len(date_list) |->
                 CountTrue(DayFilter(PriceSymDay(output, symbol_list[s], date_list[d]),
                                     ky_array[g].k, ky_array[g].y).out)],
             1, Len(date_list))

MaskAt(s, g) ==
    Concat([d \in 1..Len(date_list) |->
               DayFilter(PriceSymDay(output, symbol_list[s], date_list[d]),
                         ky_array[g].k, ky_array[g].y).keep],
           1, Len(date_list))

\* the part of not_outlier_series that belongs to the s-th symbol
MaskOf(s) ==
    LET len(s2) == Cardinality({j \in 1..Len(output) : output[j].sym_root = symbol_list[s2]})
        before == SumRange([s2 \in 1..Len(symbol_list) |-> len(s2)], 1, s - 1)
    IN  SubSeq(not_outlier_series, before + 1, before + len(s))

\* C19: when the grid search is over, outlier_frame holds for every symbol
\* the (k, y) and the count of the grid point that counts the most outliers
\* over the symbol's retained days, the first such grid point of ky_array
\* when several count as many, and the symbol's part of the inlier mask is
\* that grid point's.
C19_BestGridPointIsFirstMaximum ==
    pc = "aggregate" =>
        \A s \in 1..Len(symbol_list) :
            LET cnt == SubSeq([g \in 1..Len(ky_array) |-> OutliersAt(s, g)],
                              1, Len(ky_array))
                best == CHOOSE g \in 1..Len(ky_array) :
                            /\ \A g2 \in 1..Len(ky_array) : cnt[g2] <= cnt[g]
                            /\ \A g2 \in 1..(g - 1) : cnt[g2] < cnt[g]
            IN  /\ outlier_frame[s] = [symbol |-> symbol_list[s], out_num |-> cnt[best],
                                       k |-> ky_array[best].k, y |-> ky_array[best].y]
                /\ MaskOf(s) = MaskAt(s, best)

\* the first symbol's block of 12 trades is counted from the third grid point
\* on only; the second symbol's single high trade is counted by the first
\* grid point and by later ones
C19_Witness ==
    /\ pc = "aggregate"
    /\ outlier_frame[1] = [symbol |-> "AAPL", out_num |-> 12, k |-> 81, y |-> 2]
    /\ OutliersAt(1, 7) = 12
    /\ outlier_frame[2] = [symbol |-> "AMZN", out_num |-> 1, k |-> 41, y |-> 2]
    /\ OutliersAt(2, 2) = 1
    /\ Len(output_filtered) = Len(output) - 13

\* C20: after the gap-filling every row appended to the resampled output has
\* a price, whatever the symbol, the retained day and the step.
C20_NoMissingPrice ==
    \A r \in 1..Len(output_resampled) : ~IsNaN(output_resampled[r].price)

\* the number of occurrences of v in a sequence
Occurrences(s, v) == Cardinality({j \in 1..Len(s) : s[j] = v})

\* two sequences of prices hold the same prices as many times each
SameMultiset(s, t) ==
    /\ Len(s) = Len(t)
    /\ \A v \in Range(s) \cup Range(t) : Occurrences(s, v) = Occurrences(t, v)

\* the loop over i is at a position of a day of at least k trades (odd k)
AtWindow ==
    /\ pc = "rolling"
    /\ k % 2 = 1
    /\ Len(price_sym_day) >= k
    /\ i < center_end(Len(price_sym_day), k)

\* C21: on a day of n >= k trades, k odd, the window that serves position i
\* (0-based, center_beg <= i < center_end) is sorted and holds exactly the
\* day's prices at the positions i - center_beg .. i + center_beg, each as
\* many times as it occurs there, the day's prices being those of the one
\* symbol and date; an advance takes one occurrence of the price at
\* i - center_beg out and puts the price at i + center_beg + 1 in.
C21_WindowIsSortedSlice ==
    /\ [](AtWindow =>
             /\ price_sym_day = PriceSymDay(output, symbol_list[pos + 1], date_list[1])
             /\ i >= center_beg(k)
             /\ \A j \in 1..(Len(window) - 1) : window[j] <= window[j + 1]
             /\ SameMultiset(window, SubSeq(price_sym_day, i - center_beg(k) + 1,
                                            i + center_beg(k) + 1)))
    /\ [][(AtWindow /\ i' = i + 1 /\ i' < center_end(Len(price_sym_day), k)) =>
             SameMultiset(window' \o <<price_sym_day[i - center_beg(k) + 1]>>,
                          window \o <<price_sym_day[i + center_beg(k) + 2]>>)]_vars

\* the window of 41 prices has advanced three times over a day of 50 trades
\* and holds the same price several times
C21_Witness ==
    /\ pc = "rolling"
    /\ k = 41
    /\ Len(price_sym_day) = 50
    /\ i = center_beg(k) + 3
    /\ Len(window) = 41
    /\ window[1] = window[2]
    /\ window[41] = 15000

\* the center and spread computed at position c (1-based) of the day: those
\* of the k prices that start center_beg positions before c
StatAt(c) ==
    WindowStat(np_sort(SubSeq(price_sym_day, c - center_beg(k),
                              c - center_beg(k) + k - 1)), k)

\* C22: on a day of n >= k trades every position before center_beg is judged
\* with the center and spread computed at position center_beg, every
\* position from center_end on with those computed at position
\* center_end - 1, every position between with its own, and no position is
\* without a center and spread.  (Positions are 0-based in the statement,
\* 1-based in the sequences.)
C22_EdgesUseBoundaryStatistic ==
    (pc = "aggregate" /\ Len(price_sym_day) >= k) =>
        LET n == Len(price_sym_day)
            cb == center_beg(k)
            ce == center_end(n, k)
            first == StatAt(cb + 1)
            last == StatAt(ce)
        IN  /\ ~first.nan
            /\ ~last.nan
            /\ \A j \in 1..cb :
                  /\ outlier_sym[j] = IsOutlier(price_sym_day[j], first, y)
                  /\ not_outlier_sym[j] = IsInlier(price_sym_day[j], first, y)
            /\ \A j \in (ce + 1)..n :
                  /\ outlier_sym[j] = IsOutlier(price_sym_day[j], last, y)
                  /\ not_outlier_sym[j] = IsInlier(price_sym_day[j], last, y)
            /\ \A j \in (cb + 1)..ce :
                  /\ ~rolling[j].nan
                  /\ rolling[j] = StatAt(j)
                  /\ outlier_sym[j] = IsOutlier(price_sym_day[j], rolling[j], y)
                  /\ not_outlier_sym[j] = IsInlier(price_sym_day[j], rolling[j], y)

\* a day of 50 trades filtered with k = 41 whose first trade is the spike:
\* the spike is flagged and the last trade is kept, both at edge positions
C22_Witness ==
    /\ pc = "aggregate"
    /\ k = 41
    /\ Len(price_sym_day) = 50
    /\ price_sym_day[1] = 15000
    /\ outlier_sym[1]
    /\ not_outlier_sym[50]

\* C23: the tolerance recorded for a symbol by the grid search is the
\* smallest of the grid, at every moment of the search; when the search is
\* over, for every symbol and every k the count of outliers of a grid point
\* is at most the count of the grid point with the same k and the next
\* smaller tolerance, and the grid points with the smallest tolerance are
\* the first of ky_array.
C23_SmallestToleranceSelected ==
    /\ \A s \in 1..Len(outlier_frame) :
          \/ outlier_frame[s].y = NoValue
          \/ \A t \in 1..Len(y_list) : outlier_frame[s].y <= y_list[t]
    /\ \A g \in 1..Len(k_list), g2 \in 1..Len(ky_array) : ky_array[g].y <= ky_array[g2].y
    /\ pc = "aggregate" =>
          \A s \in 1..Len(symbol_list) :
              LET cnt == SubSeq([g \in 1..Len(ky_array) |-> OutliersAt(s, g)],
                                1, Len(ky_array))
              IN  \A g \in 1..(Len(ky_array) - Len(k_list)) :
                      /\ ky_array[g + Len(k_list)].k = ky_array[g].k
                      /\ ky_array[g + Len(k_list)].y > ky_array[g].y
                      /\ cnt[g + Len(k_list)] <= cnt[g]

\* the first symbol's count at k = 41 falls from 1 to 0 as the tolerance
\* grows from 0.02 to 0.04 and its count at k = 81 is 12 at both, the second
\* symbol's counts are all 0: both keep the tolerance 0.02
C23_Witness ==
    /\ pc = "aggregate"
    /\ outlier_frame[1] = [symbol |-> "AAPL", out_num |-> 12, k |-> 81, y |-> 2]
    /\ OutliersAt(1, 1) = 1
    /\ OutliersAt(1, 5) = 0
    /\ OutliersAt(1, 3 + 2 * Len(k_list)) = 12
    /\ outlier_frame[2] = [symbol |-> "AMZN", out_num |-> 0, k |-> 41, y |-> 2]
    /\ OutliersAt(2, Len(ky_array)) = 0

\* C24: at the end of the extraction, for every symbol the days recorded
\* in n_obs_table as min_n_obs_day and max_n_obs_day are dates of date_list,
\* and min_n_obs and max_n_obs are the least and the greatest number of the
\* symbol's trades on a date of the final output.
C24_NObsTableMatchesFinalOutput ==
    pc = "outlier" =>
        \A s \in 1..Len(n_obs_table) :
            LET D == {d \in Range(date_list) : CountOf(output, symbol_list[s], d) > 0}
            IN  D # {} =>
                  /\ n_obs_table[s].min_n_obs_day \in Range(date_list)
                  /\ n_obs_table[s].max_n_obs_day \in Range(date_list)
                  /\ \E d \in D : CountOf(output, symbol_list[s], d) = n_obs_table[s].min_n_obs
                  /\ \E d \in D : CountOf(output, symbol_list[s], d) = n_obs_table[s].max_n_obs
                  /\ \A d \in D :
                        /\ CountOf(output, symbol_list[s], d) >= n_obs_table[s].min_n_obs
                        /\ CountOf(output, symbol_list[s], d) <= n_obs_table[s].max_n_obs

Next ==
    \/ NoDates
    \/ TableMissing
    \/ RawSqlRaises
    \/ RawSqlReturns
    \/ GridPoint
    \/ AggregateStep
    \/ ResampleSymbol
    \/ ExportSymbol

Spec == Init /\ [][Next]_vars
====
